---- MODULE Spec2Model ----
(***************************************************************************)
(* StreakForge frontend analytics: the four dashboard computations         *)
(* (CompletionChart, StreakChart, CategoryChart, ProgressSummary) over the *)
(* habit store's collections.                                              *)
(*                                                                         *)
(* Representation.  An instant (a JS Date / Date.now()) is an integer      *)
(* number of milliseconds counted from the model epoch, which is 00:00 UTC *)
(* of a Sunday.  A calendar-date string 'yyyy-MM-dd' is represented by its *)
(* day number counted from the same epoch.  The local time zone is a fixed *)
(* offset tz (local = UTC + tz, no daylight saving).  habit.created_at is  *)
(* held as the instant `new Date(habit.created_at)` denotes.               *)
(***************************************************************************)
EXTENDS Integers, Sequences, FiniteSets, TLC

\* habits, completions, streaks: the habit store's collections (habitStore state);
\*   habits is a sequence of [id, name, description, category, created_at] (a
\*   habit without description has the empty text), completions maps a habit
\*   id to its sequence of [id, habit_id, completion_date], streaks maps a habit
\*   id to [current_streak, longest_streak]
\* now: the clock (new Date(), Date.now());  tz: the local time-zone offset
\* view: the output of the component rendered last;  prev: the output before it
\* loading, error: the habit store's loading flag and error message
\* calls: the store actions started so far, each with the point it has reached
\* backend: the habits and completions the REST backend holds and its next ids
\* page: the local state of the Habits page and its import modal
\* runs: the runs of the useHabits data-loading effect, each with the store
\*   snapshot it closed over and the point it has reached
VARIABLES habits, completions, streaks, now, tz, view, prev,
          loading, error, calls, backend, page, runs

vars == <<habits, completions, streaks, now, tz, view, prev,
          loading, error, calls, backend, page, runs>>

\* the components' local state
uiVars == <<page, runs>>

\* the store's request state, the backend and the components' local state
storeVars == <<loading, error, calls, backend, page, runs>>

(* ------------------------------ bounds --------------------------------- *)
MaxHabits == 2
MaxDay == 2
MaxRecords == 2
MaxWindow == 8

(* ----------------------------- time base ------------------------------- *)
MsPerDay == 1000 * 60 * 60 * 24

HalfDay == MsPerDay \div 2

QuarterDay == MsPerDay \div 4

Min(a, b) == IF a <= b THEN a ELSE b

Max(a, b) == IF a >= b THEN a ELSE b

\* the integer nearest to num / den for den > 0, a half going up
RoundDiv(num, den) == (2 * num + den) \div (2 * den)

\* Math.floor(num / den) for den > 0 (TLA+ \div rounds towards minus infinity)
FloorDiv(num, den) == num \div den

(* ---------------------- IEEE 754 double arithmetic --------------------- *)
\* the number of bits of the significand of a double
Precision == 53

\* num / den brought into [1, 2): a / b = (num / den) * 2^e
RECURSIVE Normalised(_, _, _)
Normalised(num, den, e) ==
  IF num >= 2 * den THEN Normalised(num, 2 * den, e + 1)
  ELSE IF num < den THEN Normalised(2 * num, den, e - 1)
  ELSE [num |-> num, den |-> den, e |-> e]

\* 2^i modulo den
RECURSIVE Pow2Mod(_, _)
Pow2Mod(i, den) == IF i = 0 THEN 1 % den ELSE (2 * Pow2Mod(i - 1, den)) % den

\* what is left of r / den (r < den) after its first i binary digits
Remainder(r, den, i) == (r * Pow2Mod(i, den)) % den

\* the first n binary digits of r / den (r < den)
FractionBits(r, den, n) ==
  [i \in 1..n |-> IF 2 * Remainder(r, den, i - 1) >= den THEN 1 ELSE 0]

\* the binary digits of a natural number, most significant first
RECURSIVE BitsOf(_)
BitsOf(n) == IF n = 0 THEN << >> ELSE Append(BitsOf(n \div 2), n % 2)

\* the natural number of the first n of a list of binary digits
RECURSIVE IntegerOf(_, _)
IntegerOf(bits, n) == IF n = 0 THEN 0 ELSE 2 * IntegerOf(bits, n - 1) + bits[n]

\* the digits of the number plus one; one digit longer if every digit was 1
Incremented(bits) ==
  LET zeros == {i \in 1..Len(bits) : bits[i] = 0}
      last == CHOOSE i \in zeros : \A j \in zeros : j <= i
  IN IF zeros = {} THEN <<1>> \o [i \in 1..Len(bits) |-> 0]
     ELSE [i \in 1..Len(bits) |-> IF i < last THEN bits[i] ELSE IF i = last THEN 1 ELSE 0]

\* the carry out of the i lowest digits of bits in the product with k
RECURSIVE Carry(_, _, _)
Carry(bits, k, i) ==
  IF i = 0 THEN 0 ELSE (bits[Len(bits) - i + 1] * k + Carry(bits, k, i - 1)) \div 2

\* the digits of the number times k
TimesBits(bits, k) ==
  BitsOf(Carry(bits, k, Len(bits)))
    \o [j \in 1..Len(bits) |-> (bits[j] * k + Carry(bits, k, Len(bits) - j)) % 2]

\* a positive double is [bits, e]: Precision binary digits, the first one 1 and
\* worth 2^e.  The double nearest to the number with the given digits (first
\* digit 1, worth 2^e; sticky: digits other than 0 follow the given ones), a
\* tie going to the even significand
RoundToDouble(bits, e, sticky) ==
  IF Len(bits) <= Precision
  THEN [bits |-> bits \o [i \in 1..(Precision - Len(bits)) |-> 0], e |-> e]
  ELSE LET kept == SubSeq(bits, 1, Precision)
           more == sticky \/ \E i \in (Precision + 2)..Len(bits) : bits[i] = 1
           up == bits[Precision + 1] = 1 /\ (more \/ kept[Precision] = 1)
           inc == Incremented(kept)
       IN IF ~up THEN [bits |-> kept, e |-> e]
          ELSE IF Len(inc) > Precision
               THEN [bits |-> SubSeq(inc, 1, Precision), e |-> e + 1]
               ELSE [bits |-> inc, e |-> e]

\* a / b for integers a > 0, b > 0
Quotient(a, b) ==
  LET n == Normalised(a, b, 0)
  IN RoundToDouble(<<1>> \o FractionBits(n.num - n.den, n.den, Precision), n.e,
                   Remainder(n.num - n.den, n.den, Precision) # 0)

\* d * k for a double d and an integer k > 0
Times(d, k) ==
  LET p == TimesBits(d.bits, k)
  IN RoundToDouble(p, d.e - (Precision - 1) + (Len(p) - 1), FALSE)

\* Math.round(d) for a double d > 0: the nearest integer, a half going up
MathRound(d) ==
  IF d.e < -1 THEN 0
  ELSE IF d.e = -1 THEN 1
  ELSE IntegerOf(d.bits, d.e + 1)
       + (IF d.e + 2 <= Precision THEN d.bits[d.e + 2] ELSE 0)

\* Math.round((a / b) * k) in doubles, for integers a > 0, b > 0, k > 0
RoundScaledDouble(a, b, k) == MathRound(Times(Quotient(a, b), k))

\* b is 1, 2, 4, 8, ...
RECURSIVE IsPowerOfTwo(_)
IsPowerOfTwo(b) == b = 1 \/ (b > 1 /\ b % 2 = 0 /\ IsPowerOfTwo(b \div 2))

\* Math.round((a / b) * k) for integers a >= 0, b > 0, k > 0.  The double
\* (a / b) * k is off a * k / b by less than 1 / (2 * b), so it rounds as
\* a * k / b does unless a * k / b lies halfway between two integers; and with
\* b a power of two both the quotient and the product are exact
RoundScaled(a, b, k) ==
  IF (2 * a * k) % b = 0 /\ ((2 * a * k) \div b) % 2 = 1 /\ ~IsPowerOfTwo(b)
  THEN RoundScaledDouble(a, b, k)
  ELSE RoundDiv(a * k, b)

(* ------------------------------- dates --------------------------------- *)
\* format(date, 'yyyy-MM-dd'): the local calendar day of an instant
FormatDate(t) == (t + tz) \div MsPerDay

\* new Date('yyyy-MM-dd'): a date-only ISO string is parsed as UTC midnight
ParseDate(d) == d * MsPerDay

\* date-fns startOfDay: local midnight of the instant's local calendar day
StartOfDay(t) == FormatDate(t) * MsPerDay - tz

\* date-fns subDays: same local wall-clock time n calendar days earlier
SubDays(t, n) == t - n * MsPerDay

\* getDay(): 0 = Sunday; day 0 of the model calendar is a Sunday
DayOfWeek(d) == d % 7

\* date-fns startOfWeek with the default weekStartsOn = 0 (Sunday)
StartOfWeek(t) == StartOfDay(t) - DayOfWeek(FormatDate(t)) * MsPerDay

\* date-fns endOfWeek: Saturday 23:59:59.999 local
EndOfWeek(t) == StartOfWeek(t) + 7 * MsPerDay - 1

\* date-fns isToday(date): same local calendar day as the clock
IsToday(t) == FormatDate(t) = FormatDate(now)

\* date-fns eachDayOfInterval: local midnights from start's day while <= end
EachDayOfInterval(start, end) ==
  LET first == StartOfDay(start)
      n == IF first > end THEN 0 ELSE (end - first) \div MsPerDay + 1
  IN [i \in 1..n |-> first + (i - 1) * MsPerDay]

\* date-fns eachWeekOfInterval: the week starts from start's week to end's week
EachWeekOfInterval(start, end) ==
  LET first == StartOfWeek(start)
      last == StartOfWeek(end)
      n == IF first > last THEN 0 ELSE (last - first) \div (7 * MsPerDay) + 1
  IN [i \in 1..n |-> first + (i - 1) * 7 * MsPerDay]

(* ------------------------- collection helpers -------------------------- *)
RECURSIVE SumSeq(_)
SumSeq(s) == IF s = <<>> THEN 0 ELSE Head(s) + SumSeq(Tail(s))

\* completions[habit.id] || []
CompletionsOf(cs, id) == IF id \in DOMAIN cs THEN cs[id] ELSE <<>>

\* habitCompletions.some(c => c.completion_date === dateStr)
HasCompletion(habitCompletions, dateStr) ==
  \E i \in 1..Len(habitCompletions) : habitCompletions[i].completion_date = dateStr

(* ------------------------- CompletionChart ----------------------------- *)
\* a count of the completion records of the day instead of the habits
DayRecords(hs, cs, dateStr) ==
  SumSeq([i \in 1..Len(hs) |->
            Cardinality({k \in 1..Len(CompletionsOf(cs, hs[i].id)) :
                           CompletionsOf(cs, hs[i].id)[k].completion_date = dateStr})])

\* the habits.forEach of the daily branch: habits with a completion that day
DayCompletions(hs, cs, dateStr) ==
  Cardinality({i \in 1..Len(hs) : HasCompletion(CompletionsOf(cs, hs[i].id), dateStr)})

\* the weekly branch: periodCompletions++ for every (day of the week, habit)
WeekCompletions(hs, cs, date) ==
  LET weekDays == EachDayOfInterval(StartOfWeek(date), EndOfWeek(date))
  IN SumSeq([k \in 1..Len(weekDays) |-> DayCompletions(hs, cs, FormatDate(weekDays[k]))])

PeriodCompletions(hs, cs, period, date) ==
  IF period = "weekly"
  THEN WeekCompletions(hs, cs, date)
  ELSE DayCompletions(hs, cs, FormatDate(date))

CompletionRate(periodCompletions, totalHabits) ==
  IF totalHabits > 0 THEN RoundScaled(periodCompletions, totalHabits, 100) ELSE 0

\* endDate, startDate and the intervals of CompletionChart.chartData
Intervals(period, days) ==
  LET endDate == now
      startDate == SubDays(endDate, days - 1)
  IN IF period = "weekly"
     THEN EachWeekOfInterval(StartOfWeek(startDate), EndOfWeek(endDate))
     ELSE EachDayOfInterval(startDate, endDate)

\* CompletionChart.chartData; the label format(date, 'MMM dd') is kept as the day
CompletionChartData(hs, cs, period, days) ==
  LET intervals == Intervals(period, days)
  IN [i \in 1..Len(intervals) |->
        LET periodCompletions == PeriodCompletions(hs, cs, period, intervals[i])
            totalHabits == Len(hs)
        IN [period |-> FormatDate(intervals[i]),
            completions |-> periodCompletions,
            totalHabits |-> totalHabits,
            completionRate |-> CompletionRate(periodCompletions, totalHabits)]]

(* ----------------------------- StreakChart ----------------------------- *)
\* habits.slice(0, 5): at most five habits are charted
MaxShown == 5

\* a prop that is not passed
Undefined == "undefined"

\* selectedHabitIds ? habits.filter(h => selectedHabitIds.includes(h.id))
\*                  : habits.slice(0, 5)
HabitsToShow(hs, selectedHabitIds) ==
  IF selectedHabitIds # Undefined
  THEN SelectSeq(hs, LAMBDA h : \E k \in 1..Len(selectedHabitIds) : selectedHabitIds[k] = h.id)
  ELSE SubSeq(hs, 1, Min(MaxShown, Len(hs)))

\* the key of a data point's label: dataPoint = { date: displayDate }
DateKey == "date"

\* the keys that dataPoint[habit.name] = streak writes to a data point, in the
\* order in which they are first written
RECURSIVE SeriesNames(_)
SeriesNames(hs) ==
  IF hs = <<>> THEN <<>>
  ELSE LET rest == SeriesNames(SubSeq(hs, 1, Len(hs) - 1))
           name == hs[Len(hs)].name
       IN IF \E i \in 1..Len(rest) : rest[i] = name THEN rest ELSE Append(rest, name)

\* the habit whose streak a key holds after the forEach: the last one of the name
LastNamed(hs, name) ==
  hs[CHOOSE i \in 1..Len(hs) :
       /\ hs[i].name = name
       /\ \A j \in (i + 1)..Len(hs) : hs[j].name # name]

\* a walk that tolerates an uncompleted first day (grace day)
RECURSIVE WalkBack(_, _, _)
WalkBack(habitCompletions, currentDate, habit) ==
  IF currentDate >= habit.created_at
     /\ HasCompletion(habitCompletions, FormatDate(currentDate))
  THEN 1 + WalkBack(habitCompletions, SubDays(currentDate, 1), habit)
  ELSE 0

StreakWalkGrace(habitCompletions, currentDate, habit) ==
  IF HasCompletion(habitCompletions, FormatDate(currentDate))
  THEN WalkBack(habitCompletions, currentDate, habit)
  ELSE WalkBack(habitCompletions, SubDays(currentDate, 1), habit)

\* a walk that adds the number of records of each completed day
RECURSIVE StreakWalkCounting(_, _, _)
StreakWalkCounting(habitCompletions, currentDate, habit) ==
  IF currentDate >= habit.created_at
     /\ HasCompletion(habitCompletions, FormatDate(currentDate))
  THEN Cardinality({i \in 1..Len(habitCompletions) :
                      habitCompletions[i].completion_date = FormatDate(currentDate)})
       + StreakWalkCounting(habitCompletions, SubDays(currentDate, 1), habit)
  ELSE 0

\* the while loop: count consecutive completed days backwards from currentDate,
\* as long as currentDate >= new Date(habit.created_at)
RECURSIVE StreakWalk(_, _, _)
StreakWalk(habitCompletions, currentDate, habit) ==
  IF currentDate >= habit.created_at
  THEN IF HasCompletion(habitCompletions, FormatDate(currentDate))
       THEN 1 + StreakWalk(habitCompletions, SubDays(currentDate, 1), habit)
       ELSE 0
  ELSE 0

\* StreakChart.chartData: one point per day of the window; a point holds its
\* label under the key date and one streak per other name of a charted habit
\* (streak[k] is dataPoint[name k]); the streak of a habit named "date" is
\* written over the label
StreakChartData(hs, cs, selectedHabitIds, days) ==
  LET endDate == now
      startDate == SubDays(endDate, days - 1)
      dateRange == EachDayOfInterval(startDate, endDate)
      habitsToShow == HabitsToShow(hs, selectedHabitIds)
      written == SeriesNames(habitsToShow)
      names == SelectSeq(written, LAMBDA name : name # DateKey)
      streak(name, date) ==
        LET habit == LastNamed(habitsToShow, name)
        IN StreakWalk(CompletionsOf(cs, habit.id), date, habit)
  IN [i \in 1..Len(dateRange) |->
        [date |-> IF \E k \in 1..Len(written) : written[k] = DateKey
                  THEN streak(DateKey, dateRange[i])
                  ELSE FormatDate(dateRange[i]),
         streak |-> [k \in 1..Len(names) |-> streak(names[k], dateRange[i])]]]

(* ---------------------------- CategoryChart ---------------------------- *)
\* the category text as it is, also when it is empty
CategoryOfRaw(habit) == habit.category

\* habit.category || 'Uncategorized'
CategoryOf(habit) == IF habit.category = "" THEN "Uncategorized" ELSE habit.category

\* the keys of categoryMap in insertion order (first habit of each category)
RECURSIVE CategoryOrder(_)
CategoryOrder(hs) ==
  IF hs = <<>> THEN <<>>
  ELSE LET rest == CategoryOrder(SubSeq(hs, 1, Len(hs) - 1))
           c == CategoryOf(hs[Len(hs)])
       IN IF \E i \in 1..Len(rest) : rest[i] = c THEN rest ELSE Append(rest, c)

\* categoryMap.get(category): the habits of the category, in input order
CategoryHabits(hs, category) == SelectSeq(hs, LAMBDA h : CategoryOf(h) = category)

\* Math.floor((Date.now() - new Date(habit.created_at).getTime()) / msPerDay) + 1
DaysSinceCreation(habit) == FloorDiv(now - habit.created_at, MsPerDay) + 1

\* the longest streak of the record in place of the current one
LongestStreakOf(ss, id) == IF id \in DOMAIN ss THEN ss[id].longest_streak ELSE 0

\* streaks[habit.id]?.current_streak || 0
CurrentStreakOf(ss, id) == IF id \in DOMAIN ss THEN ss[id].current_streak ELSE 0

\* one entry of categoryData; averageStreak and an average_streak value are kept
\* in tenths (Math.round(x * 10) / 10 is the integer Math.round(x * 10) here)
CategoryEntry(hs, cs, ss, category, metric) ==
  LET categoryHabits == CategoryHabits(hs, category)
      count == Len(categoryHabits)
      totalCompletions ==
        SumSeq([i \in 1..count |-> Len(CompletionsOf(cs, categoryHabits[i].id))])
      totalPossibleCompletions ==
        SumSeq([i \in 1..count |-> DaysSinceCreation(categoryHabits[i])])
      completionRate ==
        IF totalPossibleCompletions > 0
        THEN RoundScaled(totalCompletions, totalPossibleCompletions, 100)
        ELSE 0
      totalStreak == SumSeq([i \in 1..count |-> CurrentStreakOf(ss, categoryHabits[i].id)])
      averageStreak == IF count > 0 THEN RoundScaled(totalStreak, count, 10) ELSE 0
      value == CASE metric = "completion_rate" -> completionRate
                 [] metric = "average_streak" -> averageStreak
                 [] OTHER -> count
  IN [category |-> category, value |-> value, count |-> count,
      completionRate |-> completionRate, averageStreak |-> averageStreak]

\* insertion of one entry behind every entry whose value is not smaller: the
\* stable Array.prototype.sort((a, b) => b.value - a.value)
RECURSIVE InsertByValue(_, _)
InsertByValue(sorted, e) ==
  IF sorted = <<>> THEN <<e>>
  ELSE IF Head(sorted).value >= e.value
       THEN <<Head(sorted)>> \o InsertByValue(Tail(sorted), e)
       ELSE <<e>> \o sorted

RECURSIVE SortByValueDesc(_)
SortByValueDesc(data) ==
  IF data = <<>> THEN <<>>
  ELSE InsertByValue(SortByValueDesc(SubSeq(data, 1, Len(data) - 1)), data[Len(data)])

\* CategoryChart.categoryData
CategoryData(hs, cs, ss, metric) ==
  LET order == CategoryOrder(hs)
  IN SortByValueDesc([i \in 1..Len(order) |-> CategoryEntry(hs, cs, ss, order[i], metric)])

(* --------------------------- ProgressSummary --------------------------- *)
\* all completion records of the listed habits, habit by habit
RECURSIVE AllCompletions(_, _)
AllCompletions(hs, cs) ==
  IF hs = <<>> THEN <<>>
  ELSE CompletionsOf(cs, Head(hs).id) \o AllCompletions(Tail(hs), cs)

\* Math.min(...habits.map(h => new Date(h.created_at).getTime()))
OldestCreation(hs) == CHOOSE t \in {hs[i].created_at : i \in 1..Len(hs)} :
                        \A i \in 1..Len(hs) : t <= hs[i].created_at

\* streakValues.reduce((sum, streak) => sum + (streak.current_streak || 0), 0)
\* over Object.values(streaks)
RECURSIVE SumCurrentStreaks(_, _)
SumCurrentStreaks(ss, ids) ==
  IF ids = {} THEN 0
  ELSE LET x == CHOOSE y \in ids : TRUE
       IN ss[x].current_streak + SumCurrentStreaks(ss, ids \ {x})

\* streakValues.reduce((max, streak) => Math.max(max, streak.longest_streak || 0), 0)
MaxOfSet(S) == IF S = {} THEN 0 ELSE CHOOSE m \in S : \A x \in S : x <= m

\* ProgressSummary.stats; averageStreak is kept in tenths
SummaryStats(hs, cs, ss) ==
  LET totalHabits == Len(hs)
      activeHabits ==
        Cardinality({i \in 1..totalHabits :
                       hs[i].id \in DOMAIN ss /\ ss[hs[i].id].current_streak > 0})
      all == AllCompletions(hs, cs)
      weekAgo == SubDays(now, 7)
      todayCompletions ==
        Cardinality({i \in 1..Len(all) : IsToday(ParseDate(all[i].completion_date))})
      weekCompletions ==
        Cardinality({i \in 1..Len(all) : ParseDate(all[i].completion_date) >= weekAgo})
      totalCompletions == Len(all)
      longestStreak ==
        MaxOfSet({ss[id].longest_streak : id \in DOMAIN ss} \cup {0})
      totalCurrentStreak == SumCurrentStreaks(ss, DOMAIN ss)
      averageStreak ==
        IF totalHabits > 0 THEN RoundScaled(totalCurrentStreak, totalHabits, 10) ELSE 0
      daysSinceOldestHabit ==
        IF totalHabits > 0
        THEN Max(1, FloorDiv(now - OldestCreation(hs), MsPerDay))
        ELSE 1
      totalPossibleCompletions == totalHabits * daysSinceOldestHabit
      completionRate ==
        IF totalPossibleCompletions > 0
        THEN RoundScaled(totalCompletions, totalPossibleCompletions, 100)
        ELSE 0
      weeklyPossibleCompletions == totalHabits * 7
      weeklyCompletionRate ==
        IF weeklyPossibleCompletions > 0
        THEN RoundScaled(weekCompletions, weeklyPossibleCompletions, 100)
        ELSE 0
  IN [totalHabits |-> totalHabits,
      activeHabits |-> activeHabits,
      todayCompletions |-> todayCompletions,
      yesterdayCompletions |-> 0,
      weekCompletions |-> weekCompletions,
      totalCompletions |-> totalCompletions,
      longestStreak |-> longestStreak,
      averageStreak |-> averageStreak,
      completionRate |-> completionRate,
      weeklyCompletionRate |-> weeklyCompletionRate]

\* getTodayProgress
TodayProgress(stats) ==
  IF stats.totalHabits = 0 THEN 0
  ELSE RoundScaled(stats.todayCompletions, stats.totalHabits, 100)

(* ------------------------------- state --------------------------------- *)
Periods == {"daily", "weekly"}

Metrics == {"count", "completion_rate", "average_streak"}

Categories == {"", "Health", "Learning"}

\* the habits are named after their position in the list
InitName(i) == CASE i % 3 = 1 -> "Run" [] i % 3 = 2 -> "read" [] OTHER -> "Walk"

\* the first habit is in a category, the second has none, and so on
InitCategory(i) == IF i % 2 = 1 THEN "Health" ELSE ""

\* the first habit has no description, the second has one, and so on
InitDescription(i) == IF i % 2 = 1 THEN "" ELSE "Pages"

\* the time zones of the model: west of, at and east of UTC
TzOffsets == {-QuarterDay, 0, QuarterDay}

\* the clock readings: midnight and noon UTC of the last model day
NowInstants == {MaxDay * MsPerDay, MaxDay * MsPerDay + HalfDay}

\* creation instants: midnight UTC of the first model day, and noon UTC of the
\* day before the last one
CreatedInstants == {0, (MaxDay - 1) * MsPerDay + HalfDay}

Days == 0..MaxDay

\* completion dates of one habit in date order, a date possibly repeated
DateLists ==
  {s \in UNION {[1..n -> Days] : n \in 0..MaxRecords} :
     \A i \in 1..Len(s) : \A j \in 1..Len(s) : i < j => s[i] <= s[j]}

\* the completion records of habit id for a list of dates; record ids are unique
RecordsFor(id, dates) ==
  [k \in 1..Len(dates) |->
     [id |-> (id - 1) * MaxRecords + k, habit_id |-> id, completion_date |-> dates[k]]]

NoView == [kind |-> "none"]

\* error: null
Null == "null"

\* a backend that is not called
NoBackend == [habits |-> << >>, completions |-> << >>, next_id |-> 1, next_habit_id |-> 1]

\* the state of the pages: no page that calls useHabits mounted yet ("none",
\* else "Habits" or "Dashboard"), no modal open, no habit selected (0 for
\* null), nothing submitted, created or imported, no file being read (reading counts the FileReaders at work)
NoPage == [mounted |-> "none",
           showCreateModal |-> FALSE, showEditModal |-> FALSE, showDeleteModal |-> FALSE,
           selectedHabit |-> 0, isSubmitting |-> FALSE, isCreating |-> FALSE,
           returned |-> "none",
           showImportModal |-> FALSE, isImporting |-> FALSE, importError |-> "null",
           importData |-> FALSE, selectedHabits |-> << >>, reading |-> 0,
           imports |-> << >>]

\* a function without one key: const copy = { ...f }; delete copy[id]
WithoutKey(f, id) == [k \in DOMAIN f \ {id} |-> f[k]]

\* { ...f, [id]: value }
WithKey(f, id, value) == [k \in DOMAIN f \cup {id} |-> IF k = id THEN value ELSE f[k]]

\* the Habits page as mounted
HabitsPage == [NoPage EXCEPT !.mounted = "Habits"]

\* a store action up to its first await: set({ loading: true, error: null })
\* and the request to the backend is on its way
NewCall(caller, op, habit_id, arg) ==
  [op |-> op, habit_id |-> habit_id, arg |-> arg, pc |-> "request", result |-> Null,
   outcome |-> "pending", streak |-> "none", caller |-> caller, thrown |-> FALSE]

\* initialState: loading false, error null; no store action started
StoreIdle ==
  /\ loading = FALSE
  /\ error = Null
  /\ calls = << >>
  /\ backend = NoBackend
  /\ page = NoPage
  /\ runs = << >>

\* the store while the fetchHabits() of useHabits' mount effect is on its way
StoreFetching ==
  /\ loading = TRUE
  /\ error = Null
  /\ calls = <<NewCall("mount", "fetchHabits", 0, Null)>>
  /\ backend = NoBackend
  /\ page = NoPage
  /\ runs = << >>

TypeOK ==
  /\ Len(habits) <= MaxHabits
  /\ DOMAIN completions = {habits[i].id : i \in 1..Len(habits)}
  /\ tz \in TzOffsets

\* a store as a page finds it when it mounts: up to MaxHabits habits holding up
\* to MaxRecords completion records in all, no streak fetched yet, idle or
\* fetching the habits; nothing rendered
Init ==
  /\ tz \in TzOffsets
  /\ now \in NowInstants
  /\ \E n \in 0..MaxHabits :
       /\ \E created \in [1..n -> CreatedInstants] :
            habits = [i \in 1..n |->
                        [id |-> i, name |-> InitName(i), description |-> InitDescription(i), category |-> InitCategory(i),
                         created_at |-> created[i]]]
       /\ \E dates \in [1..n -> DateLists] :
            /\ SumSeq([i \in 1..n |-> Len(dates[i])]) <= MaxRecords
            /\ completions = [i \in 1..n |-> RecordsFor(i, dates[i])]
       /\ streaks = [i \in {} |-> 0]
  /\ view = NoView
  /\ prev = NoView
  /\ (StoreIdle \/ StoreFetching)

(* ------------------------------ actions -------------------------------- *)
\* what a page returns while the habits are loaded for the first time
Spinner == [kind |-> "spinner"]

\* if (loading && habits.length === 0) of the Analytics page and the Dashboard
ShowsSpinner == loading /\ Len(habits) = 0

\* the page returns the spinner: none of its components is rendered
RenderSpinner ==
  /\ view' = Spinner
  /\ UNCHANGED <<habits, completions, streaks, tz>>
  /\ UNCHANGED storeVars

\* the habits the Analytics page offers for selection
SelectionThreshold == 5

SelectableShown == 10

\* selectedHabits as handleHabitSelection builds it: the ids of any of the first
\* ten habits in the order they were clicked; the buttons are rendered only
\* with more than five habits
HabitSelections ==
  LET ids == IF Len(habits) > SelectionThreshold
             THEN {habits[i].id : i \in 1..Min(SelectableShown, Len(habits))}
             ELSE {}
  IN {sel \in UNION {[1..n -> ids] : n \in 0..Cardinality(ids)} :
        \A i \in 1..Len(sel) : \A j \in 1..Len(sel) : i # j => sel[i] # sel[j]}

\* CompletionChart's useMemo body runs with props period and days
ComputeCompletionChart(period, days) ==
  /\ view' = [kind |-> "CompletionChart", period |-> period, days |-> days,
              data |-> CompletionChartData(habits, completions, period, days)]
  /\ UNCHANGED <<habits, completions, streaks, tz>>
  /\ UNCHANGED storeVars

\* StreakChart's useMemo body runs with props selectedHabitIds and days
ComputeStreakChart(selectedHabitIds, days) ==
  /\ view' = [kind |-> "StreakChart", days |-> days,
              selectedHabitIds |-> selectedHabitIds,
              data |-> StreakChartData(habits, completions, selectedHabitIds, days)]
  /\ UNCHANGED <<habits, completions, streaks, tz>>
  /\ UNCHANGED storeVars

\* CategoryChart's useMemo body runs with prop metric
ComputeCategoryChart(metric) ==
  /\ view' = [kind |-> "CategoryChart", metric |-> metric,
              data |-> CategoryData(habits, completions, streaks, metric)]
  /\ UNCHANGED <<habits, completions, streaks, tz>>
  /\ UNCHANGED storeVars

\* ProgressSummary's useMemo body runs, and getTodayProgress on its result
ComputeProgressSummary ==
  /\ view' = [kind |-> "ProgressSummary",
              data |-> SummaryStats(habits, completions, streaks),
              todayProgress |-> TodayProgress(SummaryStats(habits, completions, streaks))]
  /\ UNCHANGED <<habits, completions, streaks, tz>>
  /\ UNCHANGED storeVars

\* the Analytics page renders CompletionChart with the selected period and
\* range, unless it returns the spinner
AnalyticsCompletionChart ==
  IF ShowsSpinner THEN RenderSpinner
  ELSE \E period \in Periods, days \in 1..MaxWindow : ComputeCompletionChart(period, days)

\* the Analytics page renders StreakChart with the selected range and
\* selectedHabitIds={selectedHabits.length > 0 ? selectedHabits : undefined}
AnalyticsStreakChart ==
  IF ShowsSpinner THEN RenderSpinner
  ELSE \E days \in 1..MaxWindow, selectedHabits \in HabitSelections :
         ComputeStreakChart(IF Len(selectedHabits) > 0 THEN selectedHabits ELSE Undefined,
                            days)

\* the Analytics page renders CategoryChart with the selected metric
AnalyticsCategoryChart ==
  IF ShowsSpinner THEN RenderSpinner
  ELSE \E metric \in Metrics : ComputeCategoryChart(metric)

\* the Analytics page (or the Dashboard) renders ProgressSummary
AnalyticsProgressSummary ==
  IF ShowsSpinner THEN RenderSpinner ELSE ComputeProgressSummary

\* the Analytics page mounts; the useMemo body of a chart runs once for given
\* habits, completions and props
RenderCompletionChart ==
  /\ view = NoView
  /\ AnalyticsCompletionChart
  /\ UNCHANGED <<now, prev>>

RenderStreakChart ==
  /\ view = NoView
  /\ AnalyticsStreakChart
  /\ UNCHANGED <<now, prev>>

RenderCategoryChart ==
  /\ view = NoView
  /\ AnalyticsCategoryChart
  /\ UNCHANGED <<now, prev>>

RenderProgressSummary ==
  /\ view = NoView
  /\ AnalyticsProgressSummary
  /\ UNCHANGED <<now, prev>>

Next ==
  \/ RenderCompletionChart
  \/ RenderStreakChart
  \/ RenderCategoryChart
  \/ RenderProgressSummary

Spec == Init /\ [][Next]_vars

(* ======================= properties: trend series ====================== *)
CeilDiv(a, b) == (a + b - 1) \div b

BucketSize(period) == IF period = "weekly" THEN 7 ELSE 1

\* the as-of date: the local calendar day of the clock reading
AsOfDay == FormatDate(now)

\* the number of Sunday-started calendar weeks holding a day of the window
WeeksOverlapping(asOf, days) == (asOf \div 7) - ((asOf - days + 1) \div 7) + 1

\* C1: for every as-of date, window length and granularity the trend series
\* has exactly ceil(windowDays / bucketSize) buckets, bucketSize 1 for daily
\* and 7 for weekly.
C1_BucketCountIsCeil ==
  view.kind = "CompletionChart" =>
    Len(view.data) = CeilDiv(view.days, BucketSize(view.period))

\* what the chart gives: the daily series has exactly windowDays buckets; the
\* weekly series has one bucket per Sunday-started calendar week that holds a
\* day of the window, which is ceil(windowDays / 7) or one more (holds)
BucketCountByCalendarWeek ==
  view.kind = "CompletionChart" =>
    /\ view.period = "daily" => Len(view.data) = view.days
    /\ view.period = "weekly" =>
         /\ Len(view.data) = WeeksOverlapping(AsOfDay, view.days)
         /\ Len(view.data) \in {CeilDiv(view.days, 7), CeilDiv(view.days, 7) + 1}

\* a weekly series of a 7-day window with two buckets
TwoBucketsForSevenDays ==
  /\ view.kind = "CompletionChart"
  /\ view.period = "weekly"
  /\ view.days = 7
  /\ Len(view.data) = 2

\* the habits that have a completion on some day of the week starting on weekStart
HabitsCompletedInWeek(hs, cs, weekStart) ==
  {i \in 1..Len(hs) :
     \E d \in weekStart..(weekStart + 6) : HasCompletion(CompletionsOf(cs, hs[i].id), d)}

\* C2: with weekly granularity the completed count of a bucket is the number of
\* distinct habits completed on some day of that week, so it never exceeds the
\* number of habits.
C2_WeeklyCountsDistinctHabits ==
  (view.kind = "CompletionChart" /\ view.period = "weekly") =>
    \A i \in 1..Len(view.data) :
      /\ view.data[i].completions =
           Cardinality(HabitsCompletedInWeek(habits, completions, view.data[i].period))
      /\ view.data[i].completions <= view.data[i].totalHabits

\* C3: every bucket's completion rate is within 0..100, and 0 without habits.
C3_RateWithinBounds ==
  view.kind = "CompletionChart" =>
    \A i \in 1..Len(view.data) :
      /\ view.data[i].completionRate >= 0
      /\ view.data[i].completionRate <= 100
      /\ view.data[i].totalHabits = 0 => view.data[i].completionRate = 0

(* ===================== properties: streaks and rates =================== *)
\* the habit's creation date: the local calendar day of created_at
CreatedDay(habit) == FormatDate(habit.created_at)

\* Completion Index (spec 4.1): the set of completed calendar dates
CompletionIndex(habitCompletions) ==
  {habitCompletions[i].completion_date : i \in 1..Len(habitCompletions)}

\* longest streak (spec 4.2, step 1): the longest run of consecutive dates
LongestStreak(index) ==
  MaxOfSet({n \in 0..Cardinality(index) :
              \E d \in index : \A k \in 0..(n - 1) : (d + k) \in index} \cup {0})

\* the run of consecutive completed days ending on day, no day before createdDay
RunEndingAt(index, day, createdDay) ==
  MaxOfSet({n \in 0..(day - createdDay + 1) : \A k \in 0..(n - 1) : (day - k) \in index}
           \cup {0})

\* the list without the later records of an already completed date
RECURSIVE CollapseList(_)
CollapseList(l) ==
  IF l = <<>> THEN <<>>
  ELSE LET init == SubSeq(l, 1, Len(l) - 1)
           last == l[Len(l)]
       IN IF HasCompletion(init, last.completion_date)
          THEN CollapseList(init)
          ELSE Append(CollapseList(init), last)

Collapsed(cs) == [id \in DOMAIN cs |-> CollapseList(cs[id])]

\* cs with a second record for the date of the k-th record of habit id
WithDuplicate(cs, id, k) ==
  [cs EXCEPT ![id] = Append(@, [id |-> 0, habit_id |-> id,
                                 completion_date |-> cs[id][k].completion_date])]

\* data-model invariant: one completion per habit and date, every completion
\* date between the habit's creation date and the as-of date
DataModelOk ==
  \A i \in 1..Len(habits) :
    LET l == CompletionsOf(completions, habits[i].id)
    IN /\ \A a \in 1..Len(l) : \A b \in 1..Len(l) :
            a # b => l[a].completion_date # l[b].completion_date
       /\ \A a \in 1..Len(l) :
            /\ l[a].completion_date >= CreatedDay(habits[i])
            /\ l[a].completion_date <= AsOfDay

Percent(x) == x >= 0 /\ x <= 100

\* C4: with valid data the category completion rate, the summary's overall and
\* weekly completion rates and today's progress are each within 0..100.
C4_RatesWithinBounds ==
  DataModelOk =>
    /\ view.kind = "CategoryChart" =>
         \A i \in 1..Len(view.data) : Percent(view.data[i].completionRate)
    /\ view.kind = "ProgressSummary" =>
         /\ Percent(view.data.completionRate)
         /\ Percent(view.data.weeklyCompletionRate)
         /\ Percent(view.todayProgress)

\* the habit has a completion on every day from its creation date to the as-of
\* date, and none on another day
FullHistory(habit) ==
  /\ CreatedDay(habit) <= AsOfDay
  /\ CompletionIndex(CompletionsOf(completions, habit.id)) = CreatedDay(habit)..AsOfDay

\* C5: a habit completed on every day from creation to the as-of date has
\* current streak = longest streak = asOf - created + 1.
C5_FullHistoryStreak ==
  view.kind = "StreakChart" =>
    \A k \in 1..Len(HabitsToShow(habits, view.selectedHabitIds)) :
      FullHistory(HabitsToShow(habits, view.selectedHabitIds)[k]) =>
        /\ view.data[Len(view.data)].streak[k]
             = AsOfDay - CreatedDay(HabitsToShow(habits, view.selectedHabitIds)[k]) + 1
        /\ LongestStreak(CompletionIndex(CompletionsOf(completions, HabitsToShow(habits, view.selectedHabitIds)[k].id)))
             = AsOfDay - CreatedDay(HabitsToShow(habits, view.selectedHabitIds)[k]) + 1

\* C6: the current streak at a date is the number of consecutive completed days
\* ending at that date, stopping at the first gap and never counting a day
\* before the creation date.
C6_CurrentStreakIsTrailingRun ==
  view.kind = "StreakChart" =>
    \A i \in 1..Len(view.data) : \A k \in 1..Len(HabitsToShow(habits, view.selectedHabitIds)) :
      view.data[i].streak[k] =
        RunEndingAt(CompletionIndex(CompletionsOf(completions, HabitsToShow(habits, view.selectedHabitIds)[k].id)),
                    view.data[i].date, CreatedDay(HabitsToShow(habits, view.selectedHabitIds)[k]))

\* C7 as claimed (grace day): without a completion on the date, the streak is
\* the run ending the day before, 0 if that day has no completion either.
C7_GraceDay ==
  view.kind = "StreakChart" =>
    \A i \in 1..Len(view.data) : \A k \in 1..Len(HabitsToShow(habits, view.selectedHabitIds)) :
      LET h == HabitsToShow(habits, view.selectedHabitIds)[k]
          index == CompletionIndex(CompletionsOf(completions, h.id))
      IN view.data[i].date \notin index =>
           view.data[i].streak[k] = RunEndingAt(index, view.data[i].date - 1, CreatedDay(h))

\* C7 amended (strict same-day policy): for every habit and every date of the
\* series, the streak is 0 when that date has no completion, also when the day
\* before has one.
C7_StrictSameDay ==
  view.kind = "StreakChart" =>
    \A i \in 1..Len(view.data) : \A k \in 1..Len(HabitsToShow(habits, view.selectedHabitIds)) :
      LET h == HabitsToShow(habits, view.selectedHabitIds)[k]
          index == CompletionIndex(CompletionsOf(completions, h.id))
      IN view.data[i].date \notin index => view.data[i].streak[k] = 0

\* C7 witness: the as-of date is not completed, the day before is, the streak is 0
C7_Witness ==
  /\ view.kind = "StreakChart"
  /\ \E k \in 1..Len(HabitsToShow(habits, view.selectedHabitIds)) :
       LET h == HabitsToShow(habits, view.selectedHabitIds)[k]
           index == CompletionIndex(CompletionsOf(completions, h.id))
       IN /\ AsOfDay \notin index
          /\ (AsOfDay - 1) \in index
          /\ CreatedDay(h) < AsOfDay - 1
          /\ view.data[Len(view.data)].streak[k] = 0

\* C8: a second completion record on an already completed date changes neither
\* the current streak (any date of the series) nor the longest streak.
C8_DuplicateKeepsStreak ==
  view.kind = "StreakChart" =>
    /\ view.data = StreakChartData(habits, Collapsed(completions), view.selectedHabitIds, view.days)
    /\ \A i \in 1..Len(habits) :
         \A k \in 1..Len(completions[habits[i].id]) :
           /\ StreakChartData(habits, WithDuplicate(completions, habits[i].id, k), view.selectedHabitIds, view.days)
                = view.data
           /\ LongestStreak(CompletionIndex(WithDuplicate(completions, habits[i].id, k)[habits[i].id]))
                = LongestStreak(CompletionIndex(completions[habits[i].id]))

\* C8 witness: a habit with two records on one date and a streak at the as-of date
C8_Witness ==
  /\ view.kind = "StreakChart"
  /\ \E k \in 1..Len(HabitsToShow(habits, view.selectedHabitIds)) :
       LET l == CompletionsOf(completions, HabitsToShow(habits, view.selectedHabitIds)[k].id)
       IN /\ \E a \in 1..Len(l) : \E b \in 1..Len(l) :
               a # b /\ l[a].completion_date = l[b].completion_date
          /\ view.data[Len(view.data)].streak[k] >= 1

\* C9: duplicate completions of one habit on one date are collapsed: the
\* category completion rates, the summary's total/today/week counts and the
\* trend bucket counts are those of the list without the duplicate records.
C9_DuplicatesCollapsed ==
  /\ view.kind = "CategoryChart" =>
       {<<view.data[i].category, view.data[i].completionRate>> : i \in 1..Len(view.data)}
         = LET d == CategoryData(habits, Collapsed(completions), streaks, view.metric)
           IN {<<d[i].category, d[i].completionRate>> : i \in 1..Len(d)}
  /\ view.kind = "ProgressSummary" =>
       LET d == SummaryStats(habits, Collapsed(completions), streaks)
       IN /\ view.data.totalCompletions = d.totalCompletions
          /\ view.data.todayCompletions = d.todayCompletions
          /\ view.data.weekCompletions = d.weekCompletions
  /\ view.kind = "CompletionChart" =>
       LET d == CompletionChartData(habits, Collapsed(completions), view.period, view.days)
       IN /\ Len(d) = Len(view.data)
          /\ \A i \in 1..Len(d) : d[i].completions = view.data[i].completions

(* ================= the same computations under a running clock ========= *)
\* the clock is read at most this many half days after the first reading
MaxTicks == 2

\* one habit created at the epoch, its completions any list of dates
InitClock ==
  /\ tz = 0
  /\ now = MaxDay * MsPerDay
  /\ habits = <<[id |-> 1, name |-> InitName(1), description |-> InitDescription(1), category |-> InitCategory(1),
                created_at |-> 0]>>
  /\ \E dates \in DateLists : completions = [i \in {1} |-> RecordsFor(1, dates)]
  /\ streaks = [i \in {} |-> 0]
  /\ view = NoView
  /\ prev = NoView
  /\ StoreIdle

\* time passes between two renders
Tick ==
  /\ now < MaxDay * MsPerDay + MaxTicks * HalfDay
  /\ now' = now + HalfDay
  /\ UNCHANGED <<habits, completions, streaks, tz, view, prev>>
  /\ UNCHANGED storeVars

\* a component is mounted again (page navigation): its useMemo body runs anew;
\* prev keeps the output of the render before
RemountCompletionChart ==
  /\ AnalyticsCompletionChart
  /\ prev' = view
  /\ UNCHANGED now

RemountStreakChart ==
  /\ AnalyticsStreakChart
  /\ prev' = view
  /\ UNCHANGED now

RemountCategoryChart ==
  /\ AnalyticsCategoryChart
  /\ prev' = view
  /\ UNCHANGED now

RemountProgressSummary ==
  /\ AnalyticsProgressSummary
  /\ prev' = view
  /\ UNCHANGED now

NextClock ==
  \/ Tick
  \/ RemountCompletionChart
  \/ RemountStreakChart
  \/ RemountCategoryChart
  \/ RemountProgressSummary

SpecClock == InitClock /\ [][NextClock]_vars

\* the explicit inputs of a render: the component and its props (the habits,
\* completions and streaks do not change under SpecClock)
PropsOf(v) ==
  CASE v.kind = "CompletionChart" -> <<v.kind, v.period, v.days>>
    [] v.kind = "StreakChart" -> <<v.kind, v.selectedHabitIds, v.days>>
    [] v.kind = "CategoryChart" -> <<v.kind, v.metric>>
    [] OTHER -> <<v.kind>>

\* C10: two computations with identical habits, completions, streaks, window
\* and metric yield identical output, whenever they are made.
C10_Deterministic ==
  (view.kind # "none" /\ prev.kind # "none" /\ PropsOf(prev) = PropsOf(view)) =>
    prev.data = view.data

(* ======================= Dashboard and HabitList ======================= *)
\* the texts of the model in String.prototype.localeCompare order
Collation == <<"", "Health", "Learning", "read", "run", "Run", "Uncategorized", "walk", "Walk">>

CollationIndex(s) == CHOOSE i \in 1..Len(Collation) : Collation[i] = s

\* a.localeCompare(b): negative, zero or positive
LocaleCompare(a, b) == CollationIndex(a) - CollationIndex(b)

\* String.prototype.toLowerCase on the texts of the model: those that have a
\* capital letter are listed with their lower case
ToLowerCase(s) ==
  LET lowerCase == [Run |-> "run", Walk |-> "walk", Pages |-> "pages",
                    Health |-> "health", Learning |-> "learning",
                    Uncategorized |-> "uncategorized"]
  IN IF s \in DOMAIN lowerCase THEN lowerCase[s] ELSE s

\* s.includes(t) for the texts of the model: the empty text is in every text,
\* and none of the other texts is a proper part of another
Includes(s, t) == t = "" \/ s = t

\* the comparator of filtered.sort in HabitList, by sortBy; the 'created' case is
\* also the comparator of the Dashboard's habits.sort
Compare(sortBy, ss, a, b) ==
  CASE sortBy = "name" -> LocaleCompare(a.name, b.name)
    [] sortBy = "category" -> LocaleCompare(a.category, b.category)
    [] sortBy = "streak" ->
         (IF b.id \in DOMAIN ss THEN ss[b.id].current_streak ELSE 0)
         - (IF a.id \in DOMAIN ss THEN ss[a.id].current_streak ELSE 0)
    [] sortBy = "created" -> b.created_at - a.created_at
    [] OTHER -> 0

\* Array.prototype.sort is stable: an element goes behind every element that the
\* comparator does not put after it
RECURSIVE InsertSorted(_, _, _, _)
InsertSorted(sortBy, ss, sorted, e) ==
  IF sorted = <<>> THEN <<e>>
  ELSE IF Compare(sortBy, ss, Head(sorted), e) <= 0
       THEN <<Head(sorted)>> \o InsertSorted(sortBy, ss, Tail(sorted), e)
       ELSE <<e>> \o sorted

RECURSIVE SortHabits(_, _, _)
SortHabits(sortBy, ss, hs) ==
  IF hs = <<>> THEN <<>>
  ELSE InsertSorted(sortBy, ss, SortHabits(sortBy, ss, SubSeq(hs, 1, Len(hs) - 1)),
                    hs[Len(hs)])

\* habits.slice(0, 6): the Dashboard shows six habits
RecentShown == 6

\* the todayCompleted prop: some completion whose date is the clock's local day
\* (toDateString in the Dashboard, isToday in the HabitList)
CompletedToday(cs, id) ==
  \E i \in 1..Len(CompletionsOf(cs, id)) :
    IsToday(ParseDate(CompletionsOf(cs, id)[i].completion_date))

\* habitCompletions.find(c => isToday(new Date(c.completion_date)))
TodayCompletion(cs, id) ==
  LET l == CompletionsOf(cs, id)
      k == CHOOSE i \in 1..Len(l) :
             /\ IsToday(ParseDate(l[i].completion_date))
             /\ \A j \in 1..(i - 1) : ~IsToday(ParseDate(l[j].completion_date))
  IN l[k]

\* the props of the HabitCard of one habit
HabitCardProps(habit, cs, ss) ==
  [id |-> habit.id,
   streak |-> CurrentStreakOf(ss, habit.id),
   todayCompleted |-> CompletedToday(cs, habit.id)]

\* HabitList.filteredHabits: a filtered copy of habits, sorted
FilteredHabits(hs, ss, searchTerm, selectedCategory, sortBy) ==
  LET matchesSearch(habit) ==
        \/ Includes(ToLowerCase(habit.name), ToLowerCase(searchTerm))
        \/ /\ habit.description # ""
           /\ Includes(ToLowerCase(habit.description), ToLowerCase(searchTerm))
      matches(habit) ==
        /\ matchesSearch(habit)
        /\ (selectedCategory = "" \/ habit.category = selectedCategory)
  IN SortHabits(sortBy, ss, SelectSeq(hs, matches))

SortKeys == {"name", "category", "streak", "created"}

\* nothing typed, the name of a habit, the description of a habit
SearchTerms == {"", "Run", "pages"}

\* what the Dashboard returns for the store's data: the spinner while the
\* first habits are loading, else ProgressSummary and the cards of the first
\* six habits
DashboardView(hs, cs, ss, isLoading) ==
  IF isLoading /\ Len(hs) = 0 THEN Spinner
  ELSE [kind |-> "Dashboard",
        data |-> SummaryStats(hs, cs, ss),
        cards |-> [i \in 1..Min(RecentShown, Len(hs)) |-> HabitCardProps(hs[i], cs, ss)]]

\* a run of the effect: fetchHabitData() over the habits, completions and
\* streaks of the render that scheduled it; slot 2k - 1 is the completions
\* check of the k-th habit, slot 2k its streak check
NewRun(hs, cs, ss) ==
  [habits |-> [k \in 1..Len(hs) |-> hs[k].id],
   completions |-> DOMAIN cs,
   streaks |-> DOMAIN ss,
   slot |-> 1,
   waiting |-> 0]

\* the habit a slot is about
SlotHabit(run, slot) == run.habits[(slot + 1) \div 2]

\* a loop that fetches whatever its snapshot holds
FetchesRegardless(run, slot) == TRUE

\* if (!completions[habit.id]) / if (!streaks[habit.id]), on the run's snapshot
SlotFetches(run, slot) ==
  IF slot % 2 = 1
  THEN SlotHabit(run, slot) \notin run.completions
  ELSE SlotHabit(run, slot) \notin run.streaks

\* the slots from the run's position on at which it will fetch
SlotsToFetch(run) ==
  {slot \in run.slot..(2 * Len(run.habits)) : SlotFetches(run, slot)}

\* a run has left its loop
RunDone(run) == run.waiting = 0 /\ SlotsToFetch(run) = {}

\* the request a run makes at a slot: fetchCompletions, or fetchStreak, which
\* sends its request at once
SlotCall(run, slot) ==
  IF slot % 2 = 1
  THEN NewCall("effect", "fetchCompletions", SlotHabit(run, slot), Null)
  ELSE [NewCall("effect", "fetchStreak", SlotHabit(run, slot), Null)
          EXCEPT !.pc = "streakRequest", !.streak = "requested"]

\* fetchHabitData from its start, or from the await it was suspended at, to
\* its next await: the run skips what its snapshot holds and calls
\* fetchCompletions or fetchStreak for the first entry missing from the
\* snapshot, or it leaves the loop.  The result is the run, the calls with the
\* new one appended, and whether loading was set (by fetchCompletions).
AdvanceRun(run, cs) ==
  LET todo == SlotsToFetch(run)
      slot == CHOOSE x \in todo : \A y \in todo : x <= y
  IN IF todo = {}
     THEN [run |-> [run EXCEPT !.waiting = 0, !.slot = 2 * Len(run.habits) + 1],
           calls |-> cs, loads |-> FALSE]
     ELSE [run |-> [run EXCEPT !.waiting = Len(cs) + 1, !.slot = slot + 1],
           calls |-> Append(cs, SlotCall(run, slot)), loads |-> slot % 2 = 1]

\* the number of completions and streak entries missing from the store when
\* the page mounts
MaxMissing == 2

\* the requests a run can cause when m entries are missing from its snapshot:
\* its own and those of the runs its successes schedule
RECURSIVE RequestBound(_)
RequestBound(m) == IF m = 0 THEN 0 ELSE m + m * RequestBound(m - 1)

\* next to calls made by handlers, the requests of the data effect are followed
\* up to two for each of MaxMissing missing entries (the run that finds the
\* entry missing and one re-run); the effects of a mount on their own are
\* followed to their end
EffectBounded ==
  (\E i \in 1..Len(calls') : calls'[i].caller \notin {"effect", "mount"}) =>
    Cardinality({i \in 1..Len(calls') : calls'[i].caller = "effect"})
      <= 2 * MaxMissing

\* the hook renders after a set() of the store and its effects follow: the
\* Dashboard sorts the store's array in place at every render; if the set()
\* replaced habits, completions or streaks the data effect runs again, and
\* with a habit listed a new fetchHabitData() runs over the new snapshot to
\* its first await.  The result is the store's array, the runs, the calls and
\* whether loading was set
HookRenders(mounted, changed, hs, cs, ss, settled) ==
  LET sorted == IF mounted = "Dashboard" THEN SortHabits("created", ss, hs) ELSE hs
      started == AdvanceRun(NewRun(sorted, cs, ss), settled)
  IN IF changed /\ mounted # "none" /\ Len(sorted) > 0
     THEN [habits |-> sorted, runs |-> Append(runs, started.run),
           calls |-> started.calls, loads |-> started.loads]
     ELSE [habits |-> sorted, runs |-> runs, calls |-> settled, loads |-> FALSE]

\* what the mounted page shows after the step: the Dashboard is returned for
\* the new store; the views of the other pages are not followed
PageRenders ==
  view' = IF page'.mounted = "Dashboard"
          THEN DashboardView(habits', completions', streaks', loading')
          ELSE view

\* the Dashboard mounts.  Its first render sorts the store's array in place
\* (habits.sort(...)) and returns the page; then the effects of useHabits run
\* in the same commit: fetchHabits() sets loading, clears error and asks for
\* the habits, and with a habit listed fetchHabitData() runs over the sorted
\* array to its first await; loading being set, the page renders again
RenderDashboard ==
  /\ view = NoView
  /\ page.mounted = "none"
  /\ page' = [page EXCEPT !.mounted = "Dashboard"]
  /\ LET fetching == Append(calls, NewCall("mount", "fetchHabits", 0, Null))
         after == HookRenders("Dashboard", TRUE, habits, completions, streaks, fetching)
     IN /\ habits' = after.habits
        /\ calls' = after.calls
        /\ runs' = after.runs
  /\ loading' = TRUE
  /\ error' = Null
  /\ UNCHANGED <<completions, streaks, now, tz, prev, backend>>
  /\ PageRenders
  /\ EffectBounded

\* the Habits page renders HabitList with the user's search term, category
\* filter and sort key; HabitList returns the spinner while loading
RenderHabitList ==
  /\ view = NoView
  /\ IF loading THEN view' = Spinner
     ELSE \E searchTerm \in SearchTerms, selectedCategory \in Categories,
             sortBy \in SortKeys :
            view' = [kind |-> "HabitList", sortBy |-> sortBy,
                     cards |-> LET filtered == FilteredHabits(habits, streaks, searchTerm,
                                                              selectedCategory, sortBy)
                               IN [i \in 1..Len(filtered) |->
                                     HabitCardProps(filtered[i], completions, streaks)]]
  /\ UNCHANGED <<habits, completions, streaks, now, tz, prev>>
  /\ UNCHANGED storeVars

(* ================= a store with categories and cached streaks ========== *)
\* the current streak figures a cached streak record carries
StreakFigures == {0, 3, 5}

\* a store after loading: any categories; the last habit possibly stamped by the
\* server half a day ahead of the client's clock, the others at the epoch; every
\* habit completed on its last days up to today; streak records as the backend
\* returned them at some earlier time, also for a habit that is listed no more
\* (fetchHabits replaces the list and keeps the streaks); the backend holds what
\* the store shows; the store is idle, or the toggle of the first habit's card is on its way
InitViews ==
  /\ tz = 0
  /\ now = MaxDay * MsPerDay
  /\ \E n \in 0..MaxHabits :
       /\ \E cat \in [1..n -> Categories], ahead \in BOOLEAN :
            habits = [i \in 1..n |->
                        [id |-> i, name |-> InitName(i), description |-> InitDescription(i), category |-> cat[i],
                         created_at |-> IF ahead /\ i = n
                                        THEN MaxDay * MsPerDay + HalfDay ELSE 0]]
       /\ \E counts \in [1..n -> 0..MaxRecords] :
            /\ SumSeq(counts) <= MaxRecords
            /\ completions =
                 [i \in 1..n |->
                    RecordsFor(i, [k \in 1..counts[i] |-> MaxDay - counts[i] + k])]
  /\ \E S \in SUBSET (1..MaxHabits) : \E cur \in [S -> StreakFigures] :
       streaks = [i \in S |-> [current_streak |-> cur[i],
                               longest_streak |-> MaxOfSet(StreakFigures)]]
  /\ view = NoView
  /\ prev = NoView
  /\ backend = [habits |-> habits, completions |-> completions,
                next_id |-> MaxHabits * MaxRecords + 1, next_habit_id |-> MaxHabits + 1]
  /\ \/ /\ loading = FALSE
        /\ calls = << >>
     \/ /\ Len(habits) > 0
        /\ loading = TRUE
        /\ calls = <<IF CompletedToday(completions, habits[1].id)
                      THEN NewCall("card", "deleteCompletion", habits[1].id,
                                   TodayCompletion(completions, habits[1].id).id)
                      ELSE NewCall("card", "createCompletion", habits[1].id,
                                   FormatDate(now))>>
  /\ error = Null
  /\ page = NoPage
  /\ runs = << >>

(* =================== properties: category statistics =================== *)
\* the habits (positions in the list) grouped under a category name: a habit
\* without category text belongs to "Uncategorized"
Members(name) ==
  {i \in 1..Len(habits) :
     \/ habits[i].category = name
     \/ (habits[i].category = "" /\ name = "Uncategorized")}

\* the calendar days from the creation date to the as-of date inclusive, at least 1
CalendarDaysSinceCreation(habit) == Max(1, AsOfDay - CreatedDay(habit) + 1)

RECURSIVE SumOver(_, _)
SumOver(f, S) ==
  IF S = {} THEN 0
  ELSE LET x == CHOOSE y \in S : TRUE IN f[x] + SumOver(f, S \ {x})

\* C11: the category statistics are in descending order of the requested
\* metric, and two categories of equal metric value are in ascending order of
\* category name, whatever the order of the habits.
C11_SortedWithNameTieBreak ==
  view.kind = "CategoryChart" =>
    \A i \in 1..Len(view.data) : \A j \in 1..Len(view.data) :
      i < j =>
        \/ view.data[i].value > view.data[j].value
        \/ /\ view.data[i].value = view.data[j].value
           /\ LocaleCompare(view.data[i].category, view.data[j].category) < 0

\* the descending order alone (holds)
CategorySortedDescending ==
  view.kind = "CategoryChart" =>
    \A i \in 1..Len(view.data) : \A j \in 1..Len(view.data) :
      i < j => view.data[i].value >= view.data[j].value

\* C12: the completion rate of a category is the sum of its habits' completions
\* over the sum of its habits' calendar days since creation inclusive, each
\* floored at 1 (so never zero or negative), as a rounded percentage.
C12_CategoryRateDenominator ==
  view.kind = "CategoryChart" =>
    \A i \in 1..Len(view.data) :
      LET members == Members(view.data[i].category)
          done == SumOver([m \in members |-> Len(CompletionsOf(completions, habits[m].id))],
                          members)
          days == SumOver([m \in members |-> CalendarDaysSinceCreation(habits[m])], members)
      IN /\ days >= 1
         /\ view.data[i].completionRate = RoundDiv(done * 100, days)

Abs(x) == IF x >= 0 THEN x ELSE -x

\* the cached current streak of the habits at the given positions, 0 for a habit
\* without streak record
CachedStreakSum(members) ==
  SumOver([m \in members |-> IF habits[m].id \in DOMAIN streaks
                             THEN streaks[habits[m].id].current_streak ELSE 0], members)

\* C13: the average streak of a category is the arithmetic mean of the current
\* streaks of its habits, a habit without streak record counting as 0; the
\* figure is carried to one decimal place (streaks 5 and 3 give 4.0).
C13_AverageStreakIsMean ==
  view.kind = "CategoryChart" =>
    \A i \in 1..Len(view.data) :
      LET members == Members(view.data[i].category)
          count == Cardinality(members)
      IN /\ count > 0
         /\ 2 * Abs(view.data[i].averageStreak * count - 10 * CachedStreakSum(members))
              <= count
         /\ view.metric = "average_streak" => view.data[i].value = view.data[i].averageStreak

\* C13 witness: a category of two habits with streaks 5 and 3 has average 4.0
C13_Witness ==
  /\ view.kind = "CategoryChart"
  /\ view.metric = "average_streak"
  /\ \E i \in 1..Len(view.data) :
       /\ view.data[i].category = "Health"
       /\ view.data[i].count = 2
       /\ \A m \in Members("Health") : habits[m].id \in DOMAIN streaks
       /\ {streaks[habits[m].id].current_streak : m \in Members("Health")} = {3, 5}
       /\ view.data[i].averageStreak = 40

\* C14: category grouping partitions the habits: every habit is counted in
\* exactly one emitted category, a habit without category under
\* "Uncategorized"; the counts sum to the number of habits and no emitted
\* category is empty.
C14_GroupingPartitions ==
  view.kind = "CategoryChart" =>
    /\ \A i \in 1..Len(view.data) : \A j \in 1..Len(view.data) :
         i # j => view.data[i].category # view.data[j].category
    /\ \A i \in 1..Len(view.data) :
         /\ view.data[i].count = Cardinality(Members(view.data[i].category))
         /\ view.data[i].count > 0
    /\ \A h \in 1..Len(habits) :
         \E i \in 1..Len(view.data) :
           view.data[i].category =
             (IF habits[h].category = "" THEN "Uncategorized" ELSE habits[h].category)
    /\ SumSeq([i \in 1..Len(view.data) |-> view.data[i].count]) = Len(habits)

\* C14 witness: two habits, one without category, grouped into two categories
C14_Witness ==
  /\ view.kind = "CategoryChart"
  /\ Len(habits) = 2
  /\ \E h \in 1..Len(habits) : habits[h].category = ""
  /\ Len(view.data) = 2
  /\ \E i \in 1..Len(view.data) :
       view.data[i].category = "Uncategorized" /\ view.data[i].count = 1

(* ================== the trend chart over a week of data ================ *)
\* the shortest range the Analytics page offers: "Last 7 days"
WeekWindow == 7

\* the elements of a set of integers in ascending order
RECURSIVE Ascending(_)
Ascending(S) ==
  IF S = {} THEN <<>>
  ELSE LET m == CHOOSE x \in S : \A y \in S : x <= y
       IN <<m>> \o Ascending(S \ {m})

\* a loaded store for the trend chart: possibly a first habit with a few
\* completion records (a date possibly repeated), and a habit completed on any
\* days of the week that ends today
InitTrend ==
  /\ tz \in TzOffsets
  /\ now \in NowInstants
  /\ \E other \in BOOLEAN, dates \in DateLists, week \in SUBSET (0..(WeekWindow - 1)) :
       LET n == IF other THEN 2 ELSE 1
       IN /\ (~other) => dates = <<>>
          /\ habits = [i \in 1..n |->
                         [id |-> i, name |-> InitName(i), description |-> InitDescription(i), category |-> InitCategory(i),
                          created_at |-> -WeekWindow * MsPerDay]]
          /\ completions =
               [i \in 1..n |->
                  IF i < n THEN RecordsFor(i, dates)
                  ELSE RecordsFor(i, Ascending({FormatDate(now) - k : k \in week}))]
  /\ streaks = [i \in {} |-> 0]
  /\ view = NoView
  /\ prev = NoView
  /\ StoreIdle

NextTrend == RenderCompletionChart

SpecTrend == InitTrend /\ [][NextTrend]_vars

\* C15: the daily series is ordered oldest first and ends at the as-of date;
\* bucket i carries the number of habits having a completion on exactly that
\* calendar day, the number of habits, and the rate round(100 * count / total).
C15_DailySeries ==
  (view.kind = "CompletionChart" /\ view.period = "daily") =>
    /\ Len(view.data) = view.days
    /\ view.data[Len(view.data)].period = AsOfDay
    /\ \A i \in 1..Len(view.data) :
         LET day == AsOfDay - view.days + i
             count == Cardinality({h \in 1..Len(habits) :
                         day \in CompletionIndex(CompletionsOf(completions, habits[h].id))})
             total == Len(habits)
         IN /\ view.data[i].period = day
            /\ view.data[i].completions = count
            /\ view.data[i].totalHabits = total
            /\ view.data[i].completionRate = (200 * count + total) \div (2 * total)

\* C15 witness: one habit completed only on the first and the last day of a
\* 7-day window: counts [1,0,0,0,0,0,1] and rates [100,0,0,0,0,0,100]
C15_Witness ==
  /\ view.kind = "CompletionChart"
  /\ view.period = "daily"
  /\ view.days = WeekWindow
  /\ Len(habits) = 1
  /\ CompletionIndex(CompletionsOf(completions, habits[1].id)) = {AsOfDay - (WeekWindow - 1), AsOfDay}
  /\ [i \in 1..Len(view.data) |-> view.data[i].completions] = <<1, 0, 0, 0, 0, 0, 1>>
  /\ [i \in 1..Len(view.data) |-> view.data[i].completionRate] = <<100, 0, 0, 0, 0, 0, 100>>

(* ===================== properties: the pages' renders ================== *)
\* C16: no analytics or presentation computation mutates the collections it is
\* given: a render of the dashboard, the habit list or a chart leaves the
\* store's habits (same elements, same order), completions and streaks as
\* they were.
C16_RendersMutateNothing ==
  [][(/\ error' = error
      /\ \A i \in 1..Len(calls) : calls'[i] = calls[i]) =>
       /\ habits' = habits
       /\ completions' = completions
       /\ streaks' = streaks]_vars

\* the renders other than the Dashboard's leave the store's habits alone (holds)
OnlyDashboardReorders ==
  [][view'.kind # "Dashboard" => habits' = habits]_vars

(* ================= properties: bad records and empty input ============= *)
\* the completion lists without the records dated before the creation date of
\* their habit
WithoutEarlyRecords(hs, cs) ==
  [id \in DOMAIN cs |->
     IF \E i \in 1..Len(hs) : hs[i].id = id
     THEN LET habit == hs[CHOOSE i \in 1..Len(hs) : hs[i].id = id]
          IN SelectSeq(cs[id], LAMBDA c : c.completion_date >= CreatedDay(habit))
     ELSE cs[id]]

\* C17: a completion dated before the habit's creation date is excluded from
\* every output (streaks, trend bucket counts, category completion rate,
\* summary totals): the outputs are those computed without the bad records.
C17_BadRecordsExcluded ==
  LET valid == WithoutEarlyRecords(habits, completions)
  IN /\ view.kind = "StreakChart" =>
          view.data = StreakChartData(habits, valid, view.selectedHabitIds, view.days)
     /\ view.kind = "CompletionChart" =>
          view.data = CompletionChartData(habits, valid, view.period, view.days)
     /\ view.kind = "CategoryChart" =>
          view.data = CategoryData(habits, valid, streaks, view.metric)
     /\ view.kind = "ProgressSummary" =>
          view.data = SummaryStats(habits, valid, streaks)

\* every figure and rate of a summary is 0
AllZero(stats) ==
  /\ stats.totalHabits = 0
  /\ stats.activeHabits = 0
  /\ stats.todayCompletions = 0
  /\ stats.yesterdayCompletions = 0
  /\ stats.weekCompletions = 0
  /\ stats.totalCompletions = 0
  /\ stats.longestStreak = 0
  /\ stats.averageStreak = 0
  /\ stats.completionRate = 0
  /\ stats.weeklyCompletionRate = 0

\* the positions of the habits that have no completion record
Uncompleted == {i \in 1..Len(habits) : CompletionsOf(completions, habits[i].id) = <<>>}

\* the habit list without the habits at the given positions
RECURSIVE Without(_, _)
Without(hs, S) ==
  IF hs = <<>> THEN <<>>
  ELSE LET init == Without(SubSeq(hs, 1, Len(hs) - 1), S)
       IN IF Len(hs) \in S THEN init ELSE Append(init, hs[Len(hs)])

\* C18: empty input is valid: with zero habits every summary figure and rate is
\* 0 and the category output is empty; a habit with zero completions
\* contributes 0 to every completion count.
C18_EmptyInput ==
  /\ (view.kind \in {"ProgressSummary", "Dashboard"} /\ Len(habits) = 0) =>
       AllZero(view.data)
  /\ (view.kind = "ProgressSummary" /\ Len(habits) = 0) => view.todayProgress = 0
  /\ (view.kind = "CategoryChart" /\ Len(habits) = 0) => view.data = <<>>
  /\ view.kind \in {"ProgressSummary", "Dashboard"} =>
       LET rest == SummaryStats(Without(habits, Uncompleted), completions, streaks)
       IN /\ view.data.totalCompletions = rest.totalCompletions
          /\ view.data.todayCompletions = rest.todayCompletions
          /\ view.data.weekCompletions = rest.weekCompletions

\* with zero habits and no streak record left in the store, every summary
\* figure is 0 (holds)
EmptyStoreGivesZeros ==
  (view.kind \in {"ProgressSummary", "Dashboard"} /\ Len(habits) = 0 /\ DOMAIN streaks = {})
    => AllZero(view.data)

(* ===================== properties: the cached streak =================== *)
\* the current streak computed from the habit's completions at the as-of date
\* (spec 4.2, same-day policy)
FreshCurrentStreak(habit) ==
  RunEndingAt(CompletionIndex(CompletionsOf(completions, habit.id)), AsOfDay,
              CreatedDay(habit))

\* the habit of an id
HabitOf(id) == habits[CHOOSE i \in 1..Len(habits) : habits[i].id = id]

\* C19: the cached streak record is never trusted silently: where the cached
\* current streak of a habit differs from the freshly computed one, the fresh
\* value is the one used for the habit card, the category average streak and
\* the summary's active-habit count and average streak.
C19_FreshStreakUsed ==
  (\A i \in 1..Len(habits) : habits[i].id \in DOMAIN streaks) =>
    /\ view.kind \in {"HabitList", "Dashboard"} =>
         \A k \in 1..Len(view.cards) :
           view.cards[k].streak = FreshCurrentStreak(HabitOf(view.cards[k].id))
    /\ view.kind = "CategoryChart" =>
         \A i \in 1..Len(view.data) :
           LET members == Members(view.data[i].category)
               fresh == SumOver([m \in members |-> FreshCurrentStreak(habits[m])], members)
           IN 2 * Abs(view.data[i].averageStreak * Cardinality(members) - 10 * fresh)
                <= Cardinality(members)
    /\ view.kind \in {"ProgressSummary", "Dashboard"} =>
         LET all == 1..Len(habits)
             fresh == SumOver([m \in all |-> FreshCurrentStreak(habits[m])], all)
         IN /\ view.data.activeHabits
                 = Cardinality({m \in all : FreshCurrentStreak(habits[m]) > 0})
            /\ 2 * Abs(view.data.averageStreak * Len(habits) - 10 * fresh) <= Len(habits)

(* ============== the habit store and the completion toggle ============== *)
\* the number of store actions the user and the mount of a page start in one
\* behaviour
MaxCalls == 2

\* the createHabit calls the invocations of handleImport so far have made or
\* will make
ImportsCommitted ==
  SumSeq([k \in 1..Len(page.imports) |-> Len(page.imports[k].selected)])

\* the calls started so far and those the imports under way will make; the
\* calls of the data effect, which follow from the others, aside
Started ==
  Cardinality({i \in 1..Len(calls) : calls[i].caller \notin {"effect", "import"}})
    + ImportsCommitted

\* the streak record the backend computes for a habit from the completions it
\* holds (spec 4.2: the run ending at the as-of date, and the longest run)
BackendStreak(habit) ==
  LET index == CompletionIndex(CompletionsOf(backend.completions, habit.id))
  IN [current_streak |-> RunEndingAt(index, AsOfDay, CreatedDay(habit)),
      longest_streak |-> LongestStreak(index)]

StartCallFrom(caller, op, habit_id, arg) ==
  /\ Started < MaxCalls
  /\ loading' = TRUE
  /\ error' = Null
  /\ calls' = Append(calls, NewCall(caller, op, habit_id, arg))

\* a store action called by a habit card
StartCall(op, habit_id, arg) == StartCallFrom("card", op, habit_id, arg)

\* the store actions that change a habit's completions
CompletionChanges == {"createCompletion", "deleteCompletion"}

\* HabitCard.handleToggleCompletion of the card of a habit: deleteCompletion of
\* today's completion if the card shows the habit as completed today, else
\* createCompletion for the clock's local date; the handler itself does not
\* look at isCompleting, which only feeds the button's loading indicator
HandleToggleCompletion(habit) ==
  IF CompletedToday(completions, habit.id)
  THEN StartCall("deleteCompletion", habit.id, TodayCompletion(completions, habit.id).id)
  ELSE StartCall("createCompletion", habit.id, FormatDate(now))

\* the toggle of any card of the HabitList, which renders its cards only
\* while the store is not loading (if (loading) return the spinner)
ToggleCompletion ==
  /\ ~loading
  /\ \E i \in 1..Len(habits) : HandleToggleCompletion(habits[i])
  /\ UNCHANGED <<habits, completions, streaks, now, tz, view, prev, backend>>
  /\ UNCHANGED uiVars

\* the backend answers POST /completions or DELETE /completions/{id}: it keeps
\* one completion per habit and date and knows the ids it has given out; any
\* request may also fail on the way
BackendAnswersCompletion ==
  /\ \E i \in 1..Len(calls) :
       /\ calls[i].pc = "request"
       /\ calls[i].op \in CompletionChanges
       /\ LET c == calls[i]
              held == CompletionsOf(backend.completions, c.habit_id)
              created == [id |-> backend.next_id, habit_id |-> c.habit_id,
                          completion_date |-> c.arg]
          IN \/ /\ c.op = "createCompletion"
                /\ c.habit_id \in DOMAIN backend.completions
                /\ ~HasCompletion(held, c.arg)
                /\ backend' = [backend EXCEPT
                                 !.completions[c.habit_id] = Append(@, created),
                                 !.next_id = @ + 1]
                /\ calls' = [calls EXCEPT ![i].pc = "response", ![i].result = created]
             \/ /\ c.op = "deleteCompletion"
                /\ \E k \in 1..Len(held) : held[k].id = c.arg
                /\ backend' = [backend EXCEPT
                                 !.completions[c.habit_id] =
                                    SelectSeq(@, LAMBDA r : r.id # c.arg)]
                /\ calls' = [calls EXCEPT ![i].pc = "response"]
             \/ /\ backend' = backend
                /\ calls' = [calls EXCEPT ![i].pc = "error"]
  /\ UNCHANGED <<habits, completions, streaks, now, tz, view, prev, loading, error>>
  /\ UNCHANGED uiVars

\* createCompletion / deleteCompletion after the await: on success the record
\* is added to (removed from) the list read by get(), loading is cleared and
\* fetchStreak is called, which sends its request; completions being replaced,
\* the page renders and the data effect runs again.  On failure error is set,
\* loading is cleared and the error is thrown again
CompletionCallResumes ==
  /\ \E i \in 1..Len(calls) :
       LET c == calls[i]
           habitCompletions == CompletionsOf(completions, c.habit_id)
           succeeded == c.pc = "response"
           cs == IF succeeded
                 THEN WithKey(completions, c.habit_id,
                              IF c.op = "createCompletion"
                              THEN Append(habitCompletions, c.result)
                              ELSE SelectSeq(habitCompletions, LAMBDA r : r.id # c.arg))
                 ELSE completions
           settled == IF succeeded
                      THEN [calls EXCEPT ![i].pc = "streakRequest", ![i].result = Null,
                                         ![i].outcome = "ok", ![i].streak = "requested"]
                      ELSE [calls EXCEPT ![i].pc = "done", ![i].outcome = "failed",
                                         ![i].thrown = TRUE]
           after == HookRenders(page.mounted, succeeded, habits, cs, streaks, settled)
       IN /\ c.pc \in {"response", "error"}
          /\ c.op \in CompletionChanges
          /\ completions' = cs
          /\ habits' = after.habits
          /\ calls' = after.calls
          /\ runs' = after.runs
          /\ loading' = after.loads
          /\ error' = IF after.loads THEN Null
                      ELSE IF succeeded THEN error ELSE "Request failed"
  /\ UNCHANGED <<streaks, now, tz, prev, backend, page>>
  /\ PageRenders
  /\ EffectBounded

\* the backend answers GET /streaks/{habit_id} with the streak of the
\* completions it holds at that moment, or the request fails
BackendAnswersStreak ==
  /\ \E i \in 1..Len(calls) :
       /\ calls[i].pc = "streakRequest"
       /\ \/ \E k \in 1..Len(backend.habits) :
               /\ backend.habits[k].id = calls[i].habit_id
               /\ calls' = [calls EXCEPT ![i].pc = "streakResponse",
                                         ![i].result = BackendStreak(backend.habits[k])]
          \/ calls' = [calls EXCEPT ![i].pc = "streakError"]
  /\ UNCHANGED <<habits, completions, streaks, now, tz, view, prev,
                 loading, error, backend>>
  /\ UNCHANGED uiVars

\* the fetchStreak of createCompletion, deleteCompletion or refreshHabitData
\* after the await: the record is stored under the habit id, and streaks being
\* replaced the page renders and the data effect runs again; a failure is only
\* logged
FetchStreakResumes ==
  /\ \E i \in 1..Len(calls) :
       LET c == calls[i]
           succeeded == c.pc = "streakResponse"
           ss == IF succeeded THEN WithKey(streaks, c.habit_id, c.result) ELSE streaks
           settled == IF succeeded
                      THEN [calls EXCEPT ![i].pc = "done", ![i].result = Null,
                                         ![i].streak = "stored"]
                      ELSE [calls EXCEPT ![i].pc = "done", ![i].streak = "failed"]
           after == HookRenders(page.mounted, succeeded, habits, completions, ss, settled)
       IN /\ c.pc \in {"streakResponse", "streakError"}
          /\ c.caller # "effect"
          /\ streaks' = ss
          /\ habits' = after.habits
          /\ calls' = after.calls
          /\ runs' = after.runs
          /\ loading' = (after.loads \/ loading)
          /\ error' = IF after.loads THEN Null ELSE error
  /\ UNCHANGED <<completions, now, tz, prev, backend, page>>
  /\ PageRenders
  /\ EffectBounded

\* a fetchCompletions or fetchStreak called by the effect resumes after its
\* await.  A success replaces completions or streaks in the store; the page
\* renders again and, a dependency having changed, the effect runs again: a new
\* fetchHabitData() over the new snapshot runs to its first await.  A failure
\* changes neither collection, so no run is started.  Then the run that awaited
\* the call goes on to its next await.
EffectCallResumes ==
  /\ \E i \in 1..Len(calls), r \in 1..Len(runs) :
       /\ calls[i].caller = "effect"
       /\ runs[r].waiting = i
       /\ calls[i].pc \in {"response", "error", "streakResponse", "streakError"}
       /\ LET c == calls[i]
              succeeded == c.pc \in {"response", "streakResponse"}
              settled == [calls EXCEPT
                            ![i].pc = "done", ![i].result = Null,
                            ![i].outcome = IF succeeded THEN "ok" ELSE "failed",
                            ![i].streak = CASE c.pc = "streakResponse" -> "stored"
                                            [] c.pc = "streakError" -> "failed"
                                            [] OTHER -> c.streak]
              cs == IF c.pc = "response" THEN WithKey(completions, c.habit_id, c.result)
                    ELSE completions
              ss == IF c.pc = "streakResponse" THEN WithKey(streaks, c.habit_id, c.result)
                    ELSE streaks
              started == HookRenders(page.mounted, succeeded, habits, cs, ss, settled)
              resumed == AdvanceRun([runs[r] EXCEPT !.waiting = 0], started.calls)
          IN /\ completions' = cs
             /\ streaks' = ss
             /\ habits' = started.habits
             /\ calls' = resumed.calls
             /\ runs' = [started.runs EXCEPT ![r] = resumed.run]
             /\ loading' = IF started.loads \/ resumed.loads THEN TRUE
                           ELSE IF c.op = "fetchCompletions" THEN FALSE ELSE loading
             /\ error' = IF started.loads \/ resumed.loads THEN Null
                         ELSE IF c.pc = "error" THEN "Request failed" ELSE error
  /\ UNCHANGED <<now, tz, prev, backend, page>>
  /\ PageRenders
  /\ EffectBounded

\* clearError(): the Dismiss button of the error display of a page
ClearError ==
  /\ error # Null
  /\ error' = Null
  /\ habits' = HookRenders(page.mounted, FALSE, habits, completions, streaks, calls).habits
  /\ UNCHANGED <<completions, streaks, now, tz, prev, loading, calls, backend, page, runs>>
  /\ PageRenders

\* reset(): set(initialState), a store action without request.  The
\* collections being replaced, the page renders and the data effect runs, which
\* starts nothing as no habit is listed; the calls under way go on
Reset ==
  /\ Started < MaxCalls
  /\ calls' = Append(calls, [NewCall("store", "reset", 0, Null)
                              EXCEPT !.pc = "done", !.outcome = "ok"])
  /\ habits' = << >>
  /\ completions' = [id \in {} |-> << >>]
  /\ streaks' = [id \in {} |-> 0]
  /\ loading' = FALSE
  /\ error' = Null
  /\ UNCHANGED <<now, tz, prev, backend, page, runs>>
  /\ PageRenders

\* one habit loaded with its completions (any of yesterday and today); its
\* streak record loaded or not yet; the backend holds what the store shows
InitStore ==
  /\ tz = 0
  /\ now = MaxDay * MsPerDay + HalfDay
  /\ habits = <<[id |-> 1, name |-> InitName(1), description |-> InitDescription(1), category |-> InitCategory(1),
                 created_at |-> 0]>>
  /\ \E days \in SUBSET {MaxDay - 1, MaxDay} :
       /\ completions = [i \in {1} |-> RecordsFor(1, Ascending(days))]
       /\ backend = [habits |-> habits, completions |-> completions,
                     next_id |-> Cardinality(days) + 1, next_habit_id |-> 2]
  /\ \/ streaks = [i \in {} |-> 0]
     \/ streaks = [i \in {1} |-> BackendStreak(habits[1])]
  /\ view = NoView
  /\ prev = NoView
  /\ loading = FALSE
  /\ error = Null
  /\ calls = << >>
  /\ page = HabitsPage
  /\ runs = << >>

NextStore ==
  \/ ToggleCompletion
  \/ BackendAnswersCompletion
  \/ CompletionCallResumes
  \/ BackendAnswersStreak
  \/ FetchStreakResumes
  \/ EffectCallResumes
  \/ ClearError
  \/ Reset

SpecStore == InitStore /\ [][NextStore]_vars

\* no store action is under way
Quiescent == \A i \in 1..Len(calls) : calls[i].pc = "done"

\* C20: the streak of a habit is recomputed whenever its completions change:
\* every successful createCompletion or deleteCompletion has issued a streak
\* fetch for its habit before it completes, and once no request is in flight
\* the store's streak of the habit is the one the backend returns for the
\* completions it holds since the last change.
C20_StreakFollowsCompletions ==
  /\ \A i \in 1..Len(calls) :
       (calls[i].op \in CompletionChanges /\ calls[i].pc = "done" /\ calls[i].outcome = "ok")
       => calls[i].streak # "none"
  /\ Quiescent =>
       \A k \in 1..Len(habits) :
         (\E i \in 1..Len(calls) :
            /\ calls[i].op \in CompletionChanges
            /\ calls[i].habit_id = habits[k].id
            /\ calls[i].outcome = "ok")
         => /\ habits[k].id \in DOMAIN streaks
            /\ streaks[habits[k].id] = BackendStreak(habits[k])

\* every successful completion change has issued its streak fetch (holds)
StreakFetchIssued ==
  \A i \in 1..Len(calls) :
    (calls[i].op \in CompletionChanges /\ calls[i].outcome = "ok")
    => calls[i].streak # "none"

(* =================== properties: the summary's figures ================= *)
\* the figure under "vs Yesterday": todayCompletions - yesterdayCompletions
VsYesterday(stats) == stats.todayCompletions - stats.yesterdayCompletions

\* the completion records of the listed habits dated on a calendar day
CompletionsDated(day) ==
  LET all == AllCompletions(habits, completions)
  IN Cardinality({i \in 1..Len(all) : all[i].completion_date = day})

\* C23: the summary's "vs Yesterday" figure is the number of completions dated
\* today minus the number dated the day before: yesterdayCompletions counts the
\* completions, over all habits, whose date is the as-of date minus one day.
C23_VsYesterday ==
  view.kind = "ProgressSummary" =>
    /\ view.data.yesterdayCompletions = CompletionsDated(AsOfDay - 1)
    /\ VsYesterday(view.data) = CompletionsDated(AsOfDay) - CompletionsDated(AsOfDay - 1)

(* ============ the completion toggle in any local time zone ============= *)
\* one habit loaded in any time zone at any time of day, its card showing it
\* as not completed today; the backend holds what the store shows
InitToggle ==
  /\ tz \in TzOffsets
  /\ now \in NowInstants
  /\ habits = <<[id |-> 1, name |-> InitName(1), description |-> InitDescription(1), category |-> InitCategory(1),
                 created_at |-> 0]>>
  /\ \E days \in SUBSET {AsOfDay - 2, AsOfDay - 1} :
       /\ completions = [i \in {1} |-> RecordsFor(1, Ascending(days))]
       /\ backend = [habits |-> habits, completions |-> completions,
                     next_id |-> MaxRecords + 1, next_habit_id |-> 2]
  /\ ~CompletedToday(completions, 1)
  /\ streaks = [i \in {} |-> 0]
  /\ view = NoView
  /\ prev = NoView
  /\ loading = FALSE
  /\ error = Null
  /\ calls = << >>
  /\ page = HabitsPage
  /\ runs = << >>

SpecToggle == InitToggle /\ [][NextStore]_vars

\* the step in which call i of the given operation stores its successful result
Succeeds(i, op) ==
  /\ i \in 1..Len(calls)
  /\ calls[i].op = op
  /\ calls[i].pc = "response"
  /\ calls'[i].pc = "streakRequest"

\* C21: once the Mark Done toggle of a habit not completed today has succeeded,
\* the habit is reported as completed today by the habit list and the dashboard,
\* for every time-zone offset and time of day; a further toggle deletes exactly
\* the completion the first one created, and once it has succeeded the habit is
\* again reported as not completed today.
C21_ToggleRoundTrip ==
  [][\A i \in 1..Len(calls) :
       /\ (/\ Succeeds(i, "createCompletion")
           /\ \E k \in 1..Len(habits) : habits[k].id = calls[i].habit_id)
          => /\ CompletedToday(completions', calls[i].habit_id)
             /\ HabitCardProps(HabitOf(calls[i].habit_id), completions', streaks').todayCompleted
       /\ (/\ calls[i].op = "createCompletion"
           /\ calls[i].outcome = "ok"
           /\ Len(calls') = Len(calls) + 1
           /\ calls'[Len(calls')].caller = "card")
          => /\ calls'[Len(calls')].op = "deleteCompletion"
             /\ \E k \in 1..Len(CompletionsOf(completions, calls[i].habit_id)) :
                  LET r == CompletionsOf(completions, calls[i].habit_id)[k]
                  IN r.id = calls'[Len(calls')].arg /\ r.completion_date = calls[i].arg
       /\ Succeeds(i, "deleteCompletion") =>
            ~CompletedToday(completions', calls[i].habit_id)]_vars

\* for a time zone at or east of UTC the toggle round trip holds
ToggleRoundTripEastOfUTC ==
  [][tz >= 0 =>
       \A i \in 1..Len(calls) :
         /\ Succeeds(i, "createCompletion") =>
              CompletedToday(completions', calls[i].habit_id)
         /\ Succeeds(i, "deleteCompletion") =>
              ~CompletedToday(completions', calls[i].habit_id)]_vars

(* ================= the habit store's actions on habits ================= *)
\* the store actions answered by StoreCallResumes
HabitActions == {"fetchHabits", "createHabit", "updateHabit", "deleteHabit"}

FetchActions == {"fetchHabits", "fetchCompletions"}

\* the form data of a habit to create, and of an edit
NewHabitData == [name |-> "Walk", description |-> "", category |-> ""]

EditData == [name |-> "read"]

\* Habits.handleCreateHabit: the Add Habit button opens the create modal
OpenCreateModal ==
  /\ ~page.showCreateModal
  /\ page' = [page EXCEPT !.showCreateModal = TRUE]
  /\ UNCHANGED <<habits, completions, streaks, now, tz, view, prev,
                 loading, error, calls, backend, runs>>

\* Habits.handleSubmitCreate up to the await: setIsSubmitting(true), then
\* useHabits.handleCreateHabit calls the store's createHabit
SubmitCreate ==
  /\ page.showCreateModal
  /\ StartCallFrom("page", "createHabit", 0, NewHabitData)
  /\ page' = [page EXCEPT !.isSubmitting = TRUE]
  /\ UNCHANGED <<habits, completions, streaks, now, tz, view, prev, backend, runs>>

\* Habits.handleCloseModals, the onClose of the three modals and the Cancel of
\* their forms: the modals are closed and no habit is selected
CloseModals ==
  /\ page.showCreateModal \/ page.showEditModal \/ page.showDeleteModal
  /\ page' = [page EXCEPT !.showCreateModal = FALSE, !.showEditModal = FALSE,
                          !.showDeleteModal = FALSE, !.selectedHabit = 0]
  /\ UNCHANGED <<habits, completions, streaks, now, tz, view, prev,
                 loading, error, calls, backend, runs>>

\* Habits.handleEditHabit of a listed habit, the onEdit of its card (the
\* HabitList renders no card while the store is loading): the habit is selected
\* and the edit modal opened
EditHabit ==
  /\ ~loading
  /\ \E k \in 1..Len(habits) :
       page' = [page EXCEPT !.selectedHabit = habits[k].id, !.showEditModal = TRUE]
  /\ UNCHANGED <<habits, completions, streaks, now, tz, view, prev,
                 loading, error, calls, backend, runs>>

\* Habits.handleDeleteHabit of a listed habit, the onDelete of its card (the
\* HabitList renders no card while the store is loading): the habit is selected
\* and the delete modal opened
DeleteHabit ==
  /\ ~loading
  /\ \E k \in 1..Len(habits) :
       page' = [page EXCEPT !.selectedHabit = habits[k].id, !.showDeleteModal = TRUE]
  /\ UNCHANGED <<habits, completions, streaks, now, tz, view, prev,
                 loading, error, calls, backend, runs>>

\* Habits.handleSubmitEdit, the onSubmit of the form in the edit modal, up to
\* the await: nothing without a selected habit;
\* setIsSubmitting(true), then useHabits.handleUpdateHabit calls the store's
\* updateHabit for the selected habit
SubmitEdit ==
  /\ page.showEditModal
  /\ page.selectedHabit # 0
  /\ StartCallFrom("page", "updateHabit", page.selectedHabit, EditData)
  /\ page' = [page EXCEPT !.isSubmitting = TRUE]
  /\ UNCHANGED <<habits, completions, streaks, now, tz, view, prev, backend, runs>>

\* Habits.handleConfirmDelete, the Delete Habit button of the delete modal, up
\* to the await: nothing without a selected habit; setIsSubmitting(true), then useHabits.handleDeleteHabit calls the
\* store's deleteHabit for the selected habit
ConfirmDelete ==
  /\ page.showDeleteModal
  /\ page.selectedHabit # 0
  /\ StartCallFrom("page", "deleteHabit", page.selectedHabit, Null)
  /\ page' = [page EXCEPT !.isSubmitting = TRUE]
  /\ UNCHANGED <<habits, completions, streaks, now, tz, view, prev, backend, runs>>

\* useHabits.refreshHabitData() without a habit id: fetchHabits()
RefreshHabits ==
  /\ StartCallFrom("hook", "fetchHabits", 0, Null)
  /\ UNCHANGED <<habits, completions, streaks, now, tz, view, prev, backend>>
  /\ UNCHANGED uiVars

\* useHabits.refreshHabitData(habitId) of a listed habit up to its first await:
\* fetchCompletions(habitId)
RefreshHabitData ==
  /\ \E k \in 1..Len(habits) : StartCallFrom("hook", "fetchCompletions", habits[k].id, Null)
  /\ UNCHANGED <<habits, completions, streaks, now, tz, view, prev, backend>>
  /\ UNCHANGED uiVars

\* the position of a habit id in the backend's table, 0 if it holds none
BackendIndex(id) ==
  IF \E k \in 1..Len(backend.habits) : backend.habits[k].id = id
  THEN CHOOSE k \in 1..Len(backend.habits) : backend.habits[k].id = id
  ELSE 0

\* the backend answers GET /habits, POST /habits, PUT /habits/{id},
\* DELETE /habits/{id} (which removes the habit's completions too) or
\* GET /completions/habit/{id}; a request for a habit it does not hold fails,
\* and any request may fail on the way
BackendAnswersRequest ==
  /\ \E i \in 1..Len(calls) :
       /\ calls[i].pc = "request"
       /\ calls[i].op \in HabitActions \cup FetchActions
       /\ LET c == calls[i]
              k == BackendIndex(c.habit_id)
              created == [id |-> backend.next_habit_id, name |-> c.arg.name,
                          description |-> c.arg.description,
                          category |-> c.arg.category, created_at |-> now]
          IN \/ /\ c.op = "fetchHabits"
                /\ backend' = backend
                /\ calls' = [calls EXCEPT ![i].pc = "response",
                                          ![i].result = backend.habits]
             \/ /\ c.op = "createHabit"
                /\ backend' = [backend EXCEPT
                                 !.habits = Append(@, created),
                                 !.completions = WithKey(@, created.id, << >>),
                                 !.next_habit_id = @ + 1]
                /\ calls' = [calls EXCEPT ![i].pc = "response", ![i].result = created]
             \/ /\ c.op = "updateHabit"
                /\ k # 0
                /\ backend' = [backend EXCEPT !.habits[k].name = c.arg.name]
                /\ calls' = [calls EXCEPT ![i].pc = "response",
                                          ![i].result = backend'.habits[k]]
             \/ /\ c.op = "deleteHabit"
                /\ k # 0
                /\ backend' = [backend EXCEPT
                                 !.habits = SelectSeq(@, LAMBDA h : h.id # c.habit_id),
                                 !.completions = WithoutKey(@, c.habit_id)]
                /\ calls' = [calls EXCEPT ![i].pc = "response"]
             \/ /\ c.op = "fetchCompletions"
                /\ k # 0
                /\ backend' = backend
                /\ calls' = [calls EXCEPT ![i].pc = "response",
                                          ![i].result = backend.completions[c.habit_id]]
             \/ /\ backend' = backend
                /\ calls' = [calls EXCEPT ![i].pc = "error"]
  /\ UNCHANGED <<habits, completions, streaks, now, tz, view, prev, loading, error>>
  /\ UNCHANGED uiVars

\* the habits after the set() of a successful call
HabitsAfter(c) ==
  CASE c.op = "fetchHabits" -> c.result
    [] c.op = "createHabit" -> Append(habits, c.result)
    [] c.op = "updateHabit" ->
         [k \in 1..Len(habits) |-> IF habits[k].id = c.habit_id THEN c.result ELSE habits[k]]
    [] c.op = "deleteHabit" -> SelectSeq(habits, LAMBDA h : h.id # c.habit_id)
    [] OTHER -> habits

\* the store after the set() of fetchHabits, createHabit, updateHabit,
\* deleteHabit or fetchCompletions that follows the await: on success the
\* result is merged into the state read by get(), on failure error is set
StoreAfter(c) ==
  IF c.pc = "response"
  THEN [habits |-> HabitsAfter(c),
        completions |-> CASE c.op = "deleteHabit" -> WithoutKey(completions, c.habit_id)
                          [] c.op = "fetchCompletions" ->
                               WithKey(completions, c.habit_id, c.result)
                          [] OTHER -> completions,
        streaks |-> IF c.op = "deleteHabit" THEN WithoutKey(streaks, c.habit_id)
                    ELSE streaks,
        error |-> error]
  ELSE [habits |-> habits, completions |-> completions, streaks |-> streaks,
        error |-> "Request failed"]

\* call i of one of these actions resumes after its await, the calls then
\* being `settled`: the store is set and loading cleared; after a success the
\* page renders and the data effect runs again on the new snapshot
StoreSettles(i, settled) ==
  LET set == StoreAfter(calls[i])
      after == HookRenders(page.mounted, calls[i].pc = "response",
                           set.habits, set.completions, set.streaks, settled)
  IN /\ habits' = after.habits
     /\ completions' = set.completions
     /\ streaks' = set.streaks
     /\ calls' = after.calls
     /\ runs' = after.runs
     /\ loading' = after.loads
     /\ error' = IF after.loads THEN Null ELSE set.error

\* a call that ends without throwing, whatever the action
SwallowedCall(c) ==
  [c EXCEPT !.pc = "done", !.result = Null,
            !.outcome = IF c.pc = "response" THEN "ok" ELSE "failed",
            !.thrown = FALSE]

\* the call as it ends: the fetch actions swallow a failure, the others throw
\* it again
SettledCall(c) ==
  [c EXCEPT !.pc = "done", !.result = Null,
            !.outcome = IF c.pc = "response" THEN "ok" ELSE "failed",
            !.thrown = (c.pc = "error" /\ c.op \notin FetchActions)]

\* the call as refreshHabitData(habitId) goes on with it: fetchCompletions
\* having settled either way, fetchStreak(habitId) sends its request
RefreshedCall(c) ==
  IF c.caller = "hook" /\ c.op = "fetchCompletions"
  THEN [SettledCall(c) EXCEPT !.pc = "streakRequest", !.streak = "requested"]
  ELSE SettledCall(c)

\* the Habits page after useHabits' handler of a call it made has returned
\* true or false: handleSubmitCreate, handleSubmitEdit and handleConfirmDelete
\* close their modal on true (the latter two clear the selection) and clear
\* isSubmitting
PageAfter(c) ==
  LET success == c.pc = "response"
  IN CASE c.caller # "page" -> page
       [] c.op = "createHabit" ->
            [page EXCEPT !.returned = success,
                         !.showCreateModal = IF success THEN FALSE ELSE @,
                         !.isSubmitting = FALSE]
       [] c.op = "updateHabit" ->
            [page EXCEPT !.returned = success,
                         !.showEditModal = IF success THEN FALSE ELSE @,
                         !.selectedHabit = IF success THEN 0 ELSE @,
                         !.isSubmitting = FALSE]
       [] c.op = "deleteHabit" ->
            [page EXCEPT !.returned = success,
                         !.showDeleteModal = IF success THEN FALSE ELSE @,
                         !.selectedHabit = IF success THEN 0 ELSE @,
                         !.isSubmitting = FALSE]
       [] OTHER -> page

\* a store action on habits or fetchCompletions, called by the Habits page, by
\* the mount effect or by refreshHabitData, resumes after its await, and its
\* caller after it
StoreCallResumes ==
  /\ \E i \in 1..Len(calls) :
       /\ calls[i].pc \in {"response", "error"}
       /\ calls[i].op \in HabitActions \cup FetchActions
       /\ calls[i].caller \in {"page", "hook", "mount"}
       /\ StoreSettles(i, [calls EXCEPT ![i] = RefreshedCall(calls[i])])
       /\ page' = PageAfter(calls[i])
  /\ UNCHANGED <<now, tz, prev, backend>>
  /\ PageRenders
  /\ EffectBounded

(* ================== the Dashboard creating a habit ===================== *)
\* the Dashboard renders again after a change of its state or of the store: the
\* array the store holds is sorted in place and the page is returned
DashboardRenders ==
  /\ habits' = SortHabits("created", streaks', habits)
  /\ view' = DashboardView(habits', completions', streaks', loading')

\* an Add Habit / Create Habit button of the Dashboard: setShowCreateModal(true)
DashboardOpenCreateModal ==
  /\ view.kind = "Dashboard"
  /\ ~page.showCreateModal
  /\ page' = [page EXCEPT !.showCreateModal = TRUE]
  /\ UNCHANGED <<completions, streaks, now, tz, prev, loading, error, calls, backend, runs>>
  /\ DashboardRenders

\* the modal's onClose or the form's onCancel: setShowCreateModal(false)
DashboardCloseCreateModal ==
  /\ view.kind = "Dashboard"
  /\ page.showCreateModal
  /\ page' = [page EXCEPT !.showCreateModal = FALSE]
  /\ UNCHANGED <<completions, streaks, now, tz, prev, loading, error, calls, backend, runs>>
  /\ DashboardRenders

\* Dashboard.handleCreateHabit up to the await: setIsCreating(true), then
\* useHabits.handleCreateHabit calls the store's createHabit, which sets loading
DashboardSubmitCreate ==
  /\ view.kind = "Dashboard"
  /\ page.showCreateModal
  /\ StartCallFrom("dashboard", "createHabit", 0, NewHabitData)
  /\ page' = [page EXCEPT !.isCreating = TRUE]
  /\ UNCHANGED <<completions, streaks, now, tz, prev, backend, runs>>
  /\ DashboardRenders

\* the store's createHabit resumes after its await and Dashboard.handleCreateHabit
\* after it: on success the habit is appended, loading cleared and the modal
\* closed, and the data effect runs again for the new list; on failure error is
\* set and loading cleared; isCreating is cleared in both cases, and the
\* Dashboard renders again
DashboardCreateResumes ==
  /\ \E i \in 1..Len(calls) :
       /\ calls[i].pc \in {"response", "error"}
       /\ calls[i].caller = "dashboard"
       /\ StoreSettles(i, [calls EXCEPT ![i] = SettledCall(calls[i])])
       /\ page' = [page EXCEPT
                     !.showCreateModal = IF calls[i].pc = "response" THEN FALSE ELSE @,
                     !.isCreating = FALSE]
  /\ UNCHANGED <<now, tz, prev, backend>>
  /\ PageRenders
  /\ EffectBounded

\* the toggle of one of the cards the Dashboard shows (the first RecentShown
\* habits of the sorted array): the store's action sets loading and the
\* Dashboard renders again
DashboardToggleCompletion ==
  /\ view.kind = "Dashboard"
  /\ \E i \in 1..Min(Len(habits), RecentShown) : HandleToggleCompletion(habits[i])
  /\ UNCHANGED <<completions, streaks, now, tz, prev, backend, page, runs>>
  /\ DashboardRenders

\* the Dismiss button of the Dashboard's error display: clearError()
DashboardClearError ==
  /\ view.kind = "Dashboard"
  /\ error # Null
  /\ error' = Null
  /\ UNCHANGED <<completions, streaks, now, tz, prev, loading, calls, backend, page, runs>>
  /\ DashboardRenders

\* the renders of the Analytics page over the store with categories
NextCategories ==
  \/ RenderCategoryChart
  \/ RenderProgressSummary

SpecCategories == InitViews /\ [][NextCategories]_vars

NextViews ==
  \/ RenderCategoryChart
  \/ RenderProgressSummary
  \/ RenderDashboard
  \/ RenderHabitList
  \/ DashboardOpenCreateModal
  \/ DashboardCloseCreateModal
  \/ DashboardSubmitCreate
  \/ DashboardToggleCompletion
  \/ BackendAnswersRequest
  \/ BackendAnswersCompletion
  \/ BackendAnswersStreak
  \/ StoreCallResumes
  \/ CompletionCallResumes
  \/ FetchStreakResumes
  \/ EffectCallResumes
  \/ DashboardCreateResumes
  \/ DashboardClearError

\* the store as the Dashboard finds it when the user comes to it from another
\* page: up to MaxHabits habits loaded, the last one possibly stamped by the
\* server half a day ahead of the client's clock, the others at the epoch; the
\* first habit completed today; the streak records cached, that of the last
\* habit possibly not (its fetch failed); the backend holds what the store
\* shows; the store is idle, or the toggle of the first habit's card is on its
\* way
InitDashboard ==
  /\ tz = 0
  /\ now = MaxDay * MsPerDay
  /\ \E n \in 0..MaxHabits, ahead \in BOOLEAN :
       /\ (n = 0 => ~ahead)
       /\ habits = [i \in 1..n |->
                      [id |-> i, name |-> InitName(i), description |-> InitDescription(i),
                       category |-> InitCategory(i),
                       created_at |-> IF ahead /\ i = n
                                      THEN MaxDay * MsPerDay + HalfDay ELSE 0]]
       /\ completions = [i \in 1..n |-> IF i = 1 THEN RecordsFor(i, <<MaxDay>>) ELSE << >>]
       /\ \E S \in {1..n, 1..(n - 1)} :
            streaks = [i \in S |-> [current_streak |-> MaxOfSet(StreakFigures),
                                    longest_streak |-> MaxOfSet(StreakFigures)]]
  /\ view = NoView
  /\ prev = NoView
  /\ backend = [habits |-> habits, completions |-> completions,
                next_id |-> MaxHabits * MaxRecords + 1, next_habit_id |-> MaxHabits + 1]
  /\ \/ /\ loading = FALSE
        /\ calls = << >>
     \/ /\ Len(habits) > 0
        /\ loading = TRUE
        /\ calls = <<NewCall("card", "deleteCompletion", habits[1].id,
                             TodayCompletion(completions, habits[1].id).id)>>
  /\ error = Null
  /\ page = NoPage
  /\ runs = << >>

SpecViews == InitDashboard /\ [][NextViews]_vars

\* the Habits page with one habit loaded, not completed yet (the card's toggle
\* creates today's completion, the next one deletes it), and its streak; the
\* backend holds what the store shows
InitOps ==
  /\ tz = 0
  /\ now = MaxDay * MsPerDay + HalfDay
  /\ habits = <<[id |-> 1, name |-> InitName(1), description |-> InitDescription(1), category |-> InitCategory(1),
                 created_at |-> 0]>>
  /\ completions = [i \in {1} |-> << >>]
  /\ backend = [habits |-> habits, completions |-> completions,
                next_id |-> MaxRecords + 1, next_habit_id |-> 2]
  /\ streaks = [i \in {1} |-> BackendStreak(habits[1])]
  /\ view = NoView
  /\ prev = NoView
  /\ loading = FALSE
  /\ error = Null
  /\ calls = << >>
  /\ page = HabitsPage
  /\ runs = << >>

NextOps ==
  \/ OpenCreateModal
  \/ CloseModals
  \/ SubmitCreate
  \/ EditHabit
  \/ SubmitEdit
  \/ DeleteHabit
  \/ ConfirmDelete
  \/ RefreshHabits
  \/ RefreshHabitData
  \/ ToggleCompletion
  \/ BackendAnswersRequest
  \/ StoreCallResumes
  \/ BackendAnswersCompletion
  \/ CompletionCallResumes
  \/ BackendAnswersStreak
  \/ FetchStreakResumes
  \/ EffectCallResumes
  \/ ClearError
  \/ Reset

SpecOps == InitOps /\ [][NextOps]_vars

(* ===================== properties: creating a habit ==================== *)
\* the step in which the createHabit call i settles with the given answer
CreateHabitSettles(i, answer) ==
  /\ i \in 1..Len(calls)
  /\ calls[i].op = "createHabit"
  /\ calls[i].pc = answer
  /\ calls'[i].pc = "done"

\* how often a habit id is listed
Listed(hs, id) == Cardinality({k \in 1..Len(hs) : hs[k].id = id})

\* C22: after a successful habit creation the new habit is in the store's habit
\* list exactly once, every habit listed before is still listed, unchanged, and
\* the create modal is closed; after a failed creation the habit list is
\* unchanged, the store's error is set, the handler returns false and the modal
\* stays as it was (open).
C22_CreateHabitOutcome ==
  [][\A i \in 1..Len(calls) :
       /\ CreateHabitSettles(i, "response") =>
            /\ Listed(habits', calls[i].result.id) = 1
            /\ \A k \in 1..Len(habits) : \E m \in 1..Len(habits') : habits'[m] = habits[k]
            /\ ~page'.showCreateModal
       /\ CreateHabitSettles(i, "error") =>
            /\ habits' = habits
            /\ error' # Null
            /\ page'.returned = FALSE
            /\ page'.showCreateModal = page.showCreateModal]_vars

\* with no fetchHabits under way, a creation that settles has the outcome of C22
CreateHabitOutcomeWithoutFetch ==
  [][\A i \in 1..Len(calls) :
       (\A j \in 1..Len(calls) : calls[j].op # "fetchHabits") =>
         /\ CreateHabitSettles(i, "response") =>
              /\ Listed(habits', calls[i].result.id) = 1
              /\ \A k \in 1..Len(habits) : \E m \in 1..Len(habits') : habits'[m] = habits[k]
              /\ ~page'.showCreateModal
         /\ CreateHabitSettles(i, "error") =>
              /\ habits' = habits
              /\ error' # Null
              /\ page'.returned = FALSE
              /\ page'.showCreateModal = page.showCreateModal]_vars

(* ================ properties: overlapping store actions ================ *)
\* every call started so far is one of the given store actions
OnlyCalls(ops) == \A i \in 1..Len(calls) : calls[i].op \in ops

\* no request has failed
AllSucceeded ==
  \A i \in 1..Len(calls) :
    /\ calls[i].pc \notin {"error", "streakError"}
    /\ calls[i].outcome # "failed"
    /\ calls[i].streak # "failed"

\* the records of a list, as a set
RecordsOf(l) == {l[k] : k \in 1..Len(l)}

\* C24: under every interleaving of fetchCompletions, createCompletion and
\* deleteCompletion for one habit with all requests succeeding, once no request
\* is in flight the store's completion list of the habit holds exactly the
\* completions the backend holds for it.
C24_CompletionsMatchBackend ==
  (/\ OnlyCalls({"fetchCompletions", "createCompletion", "deleteCompletion"})
   /\ AllSucceeded
   /\ Quiescent)
  => \A k \in 1..Len(habits) :
       RecordsOf(CompletionsOf(completions, habits[k].id))
         = RecordsOf(CompletionsOf(backend.completions, habits[k].id))

\* without a fetchCompletions the store's list follows the backend's
CompletionsMatchBackendWithoutFetch ==
  (OnlyCalls(CompletionChanges) /\ AllSucceeded /\ Quiescent)
  => \A k \in 1..Len(habits) :
       RecordsOf(CompletionsOf(completions, habits[k].id))
         = RecordsOf(CompletionsOf(backend.completions, habits[k].id))

\* C25: in every reachable state the completion list of a habit in the store
\* holds no two records with the same id and no two with the same date, the
\* backend holding at most one completion per habit and date, under any
\* interleaving of fetchCompletions and createCompletion.
C25_NoDuplicateCompletions ==
  OnlyCalls({"fetchCompletions", "createCompletion"})
  => \A id \in DOMAIN completions :
       \A a, b \in 1..Len(completions[id]) :
         a # b => /\ completions[id][a].id # completions[id][b].id
                  /\ completions[id][a].completion_date # completions[id][b].completion_date

\* the backend holds at most one completion per habit and date
BackendHoldsOnePerDate ==
  \A id \in DOMAIN backend.completions :
    \A a, b \in 1..Len(backend.completions[id]) :
      a # b => backend.completions[id][a].completion_date
                 # backend.completions[id][b].completion_date

\* the ids of the listed habits
HabitIds == {habits[k].id : k \in 1..Len(habits)}

\* C26: after deleteHabit(id) has succeeded the store holds no habit, no
\* completions entry and no streak entry for id, in that state and in every
\* later one, also when a fetchCompletions, fetchStreak, createCompletion or
\* updateHabit for id was in flight at the deletion and completes afterwards.
C26_DeletedHabitStaysDeleted ==
  \A i \in 1..Len(calls) :
    (calls[i].op = "deleteHabit" /\ calls[i].outcome = "ok")
    => /\ calls[i].habit_id \notin HabitIds
       /\ calls[i].habit_id \notin DOMAIN completions
       /\ calls[i].habit_id \notin DOMAIN streaks

\* a deleted habit is never listed again by a call in flight at the deletion
\* (another fetchHabits aside)
DeletedHabitNotListed ==
  \A i \in 1..Len(calls) :
    (/\ calls[i].op = "deleteHabit"
     /\ calls[i].outcome = "ok"
     /\ OnlyCalls({"deleteHabit", "updateHabit", "fetchCompletions"} \cup CompletionChanges))
    => calls[i].habit_id \notin HabitIds

\* a call of a store action that sets loading whose request is unanswered
Unanswered(i) == calls[i].pc = "request"

\* a call of a store action that sets loading which has not settled yet
Unsettled(i) == calls[i].pc \in {"request", "response", "error"}

\* reset(), which no component calls, has not been called
NeverReset == \A i \in 1..Len(calls) : calls[i].op # "reset"

\* C27: the store's loading flag is true in every state in which at least one
\* of fetchHabits, createHabit, updateHabit, deleteHabit, fetchCompletions,
\* createCompletion or deleteCompletion has been started and its backend
\* request has not completed, also when such operations overlap; and it is
\* false once none is in flight.
C27_LoadingWhileInFlight ==
  NeverReset =>
    /\ (\E i \in 1..Len(calls) : Unanswered(i)) => loading
    /\ (\A i \in 1..Len(calls) : ~Unsettled(i)) => ~loading

\* loading is false once every call has settled
LoadingClearedAtRest == (\A i \in 1..Len(calls) : ~Unsettled(i)) => ~loading

\* with a single call, loading is true while it is in flight
LoadingWhileSingleCall ==
  (Len(calls) = 1 /\ Unsettled(1)) => loading

(* ===================== properties: failed requests ===================== *)
\* the step in which call i, at the given point, reaches its end
Ends(i, pc) ==
  /\ i \in 1..Len(calls)
  /\ calls[i].pc = pc
  /\ calls'[i].pc # pc

\* the step leaves the store's data as it was
DataUnchanged == habits' = habits /\ completions' = completions /\ streaks' = streaks

\* C28: when the backend request of a store action fails, habits, completions
\* and streaks are left as they were: createHabit, updateHabit, deleteHabit,
\* createCompletion and deleteCompletion set error to the failure message, set
\* loading to false and throw again; fetchHabits and fetchCompletions set error
\* and loading without throwing; fetchStreak changes nothing, sets no error and
\* never throws. (In the step of a call made by the data-loading effect, the
\* effect's loop goes on to its next call, which may set loading and clear
\* error again; the flags are stated for the other callers.)
C28_FailureLeavesData ==
  [][\A i \in 1..Len(calls) :
       /\ Ends(i, "error") =>
            /\ DataUnchanged
            /\ calls'[i].outcome = "failed"
            /\ calls'[i].thrown = (calls[i].op \notin {"fetchHabits", "fetchCompletions"})
            /\ calls[i].caller # "effect" =>
                 /\ error' = "Request failed"
                 /\ loading' = FALSE
       /\ Ends(i, "streakError") =>
            /\ DataUnchanged
            /\ ~calls'[i].thrown
            /\ calls[i].op \in CompletionChanges => calls'[i].outcome = "ok"
            /\ calls[i].caller # "effect" =>
                 /\ error' = error
                 /\ loading' = loading]_vars

\* a deleteHabit has failed and thrown and a fetchCompletions has failed
\* without throwing, the store's data as loaded
C28_Witness ==
  /\ Len(calls) = 2
  /\ \E i, j \in 1..2 :
       /\ calls[i].op = "deleteHabit" /\ calls[i].outcome = "failed" /\ calls[i].thrown
       /\ calls[j].op = "fetchCompletions" /\ calls[j].outcome = "failed"
       /\ ~calls[j].thrown
  /\ Quiescent
  /\ error = "Request failed"
  /\ ~loading
  /\ HabitIds = {1}
  /\ DOMAIN completions = {1}
  /\ DOMAIN streaks = {1}

(* ======================= importing shared habits ======================= *)
\* importData.habits: the habits of the import file, by index
ImportedHabits ==
  <<[name |-> "Walk", description |-> "", category |-> ""],
    [name |-> "read", description |-> "Pages", category |-> "Learning"],
    [name |-> "Run", description |-> "", category |-> "Health"]>>

\* habitData of the habit at an index of importData.habits; exportedOn is
\* new Date(importData.exported_at).toLocaleDateString() of the import file
ImportHabitData(index) ==
  LET habit == ImportedHabits[index]
      exportedOn == "1/1/2024"
      ImportNote == "Imported from friend's habits on " \o exportedOn
  IN [name |-> habit.name \o " (imported)",
      description |-> IF habit.description # ""
                      THEN habit.description \o "\n\n" \o ImportNote
                      ELSE ImportNote,
      category |-> habit.category]

\* a loop that ends at the first failure
PositionAfterAborting(failed, position, n) == IF failed THEN n + 1 ELSE position + 1

\* for (const index of selectedHabits): the iteration after the current one,
\* whether createHabit threw or not
PositionAfter(failed, position, n) == position + 1

\* the indices of the habits of the import file, which holds MaxHabits of them
AllSelected == [k \in 1..MaxHabits |-> k]

\* the Import button of the Habits page: setShowImportModal(true)
OpenImportModal ==
  /\ ~page.showImportModal
  /\ page' = [page EXCEPT !.showImportModal = TRUE]
  /\ UNCHANGED <<habits, completions, streaks, now, tz, view, prev,
                 loading, error, calls, backend, runs>>

\* what a chosen file turns out to be when it has been read: an export file,
\* a JSON file of another shape, a file that is no JSON
Files == {"valid", "invalid", "unreadable"}

\* the FileReaders at work at one time
MaxReads == 2

\* handleFileSelect, the onChange of the file input, which is shown while the
\* modal is open and has no preview: a FileReader is created for the chosen
\* file and reader.readAsText(file) starts; nothing else changes
HandleFileSelect ==
  /\ page.showImportModal
  /\ ~page.importData
  /\ page.reading < MaxReads
  /\ page' = [page EXCEPT !.reading = @ + 1]
  /\ UNCHANGED <<habits, completions, streaks, now, tz, view, prev,
                 loading, error, calls, backend, runs>>

\* reader.onload of a file being read, whatever the modal shows by then: a
\* valid export file is kept and all its habits are selected; a file of
\* another shape or one that is no JSON sets the error and nothing else
ReaderOnload ==
  /\ page.reading > 0
  /\ \E file \in Files :
       LET read == [page EXCEPT !.reading = @ - 1]
       IN page' = CASE file = "valid" ->
                         [read EXCEPT !.importData = TRUE, !.selectedHabits = AllSelected,
                                      !.importError = Null]
                    [] file = "invalid" ->
                         [read EXCEPT !.importError =
                            "Invalid file format. Please select a valid StreakForge export file."]
                    [] OTHER ->
                         [read EXCEPT !.importError =
                            "Failed to read file. Please ensure it's a valid JSON file."]
  /\ UNCHANGED <<habits, completions, streaks, now, tz, view, prev,
                 loading, error, calls, backend, runs>>

\* handleHabitToggle of a checkbox of the preview, which the open modal shows
\* once a file is kept: the index leaves the selection or is appended to it
HandleHabitToggle ==
  /\ page.showImportModal
  /\ page.importData
  /\ \E index \in 1..MaxHabits :
       page' = [page EXCEPT !.selectedHabits =
                  IF \E k \in 1..Len(@) : @[k] = index
                  THEN SelectSeq(@, LAMBDA i : i # index)
                  ELSE Append(@, index)]
  /\ UNCHANGED <<habits, completions, streaks, now, tz, view, prev,
                 loading, error, calls, backend, runs>>

\* handleSelectAll: nothing selected if all were, else all in file order
HandleSelectAll ==
  /\ page.showImportModal
  /\ page.importData
  /\ page' = [page EXCEPT !.selectedHabits =
                IF Len(@) = MaxHabits THEN << >> ELSE AllSelected]
  /\ UNCHANGED <<habits, completions, streaks, now, tz, view, prev,
                 loading, error, calls, backend, runs>>

\* the modal after resetState()
ResetPage(pg) ==
  [pg EXCEPT !.importData = FALSE, !.selectedHabits = << >>, !.importError = Null]

\* the Choose Different File button, shown with the preview and disabled while
\* isImporting: resetState()
ResetState ==
  /\ page.showImportModal
  /\ page.importData
  /\ ~page.isImporting
  /\ page' = ResetPage(page)
  /\ UNCHANGED <<habits, completions, streaks, now, tz, view, prev,
                 loading, error, calls, backend, runs>>

\* handleClose, the modal's onClose (and its Cancel button): resetState(), then
\* the page's onClose; an import under way is not looked at
HandleClose ==
  /\ page.showImportModal
  /\ page' = [ResetPage(page) EXCEPT !.showImportModal = FALSE]
  /\ UNCHANGED <<habits, completions, streaks, now, tz, view, prev,
                 loading, error, calls, backend, runs>>

\* ImportModal.handleImport, the Import button under the preview in the open
\* modal, up to the first await: nothing happens without a file or a selected
\* habit; isImporting is set, the counters of this invocation start at 0 and
\* createHabit is called for the first habit of the selection the handler has
\* captured
HandleImport ==
  /\ page.showImportModal
  /\ page.importData
  /\ Len(page.selectedHabits) # 0
  /\ Started + Len(page.selectedHabits) <= MaxCalls
  /\ page' = [page EXCEPT
                !.isImporting = TRUE,
                !.imports = Append(@, [selected |-> page.selectedHabits, position |-> 1,
                                       successCount |-> 0, errorCount |-> 0,
                                       made |-> <<Len(calls) + 1>>,
                                       waiting |-> Len(calls) + 1])]
  /\ loading' = TRUE
  /\ error' = Null
  /\ calls' = Append(calls, NewCall("import", "createHabit", 0,
                                    ImportHabitData(page.selectedHabits[1])))
  /\ UNCHANGED <<habits, completions, streaks, now, tz, view, prev, backend, runs>>

\* createHabit settles for the habit an invocation of handleImport is
\* importing: after a success the Habits page renders and the data effect runs
\* again for the new list.  Then handleImport goes on: it counts the success or
\* the failure and either calls createHabit for the next habit of its
\* selection or ends: with a success it closes the modal and resets its state,
\* with none it shows an error; isImporting is cleared
ImportCallResumes ==
  /\ \E k \in 1..Len(page.imports) :
       LET import == page.imports[k]
           i == import.waiting
       IN /\ i # 0
          /\ calls[i].pc \in {"response", "error"}
          /\ LET failed == calls[i].pc = "error"
                 n == Len(import.selected)
                 position == PositionAfter(failed, import.position, n)
                 successCount == import.successCount + (IF failed THEN 0 ELSE 1)
                 errorCount == import.errorCount + (IF failed THEN 1 ELSE 0)
                 counted == [import EXCEPT !.position = position,
                                           !.successCount = successCount,
                                           !.errorCount = errorCount]
                 set == StoreAfter(calls[i])
                 after == HookRenders(page.mounted, ~failed, set.habits, completions, streaks,
                                      [calls EXCEPT ![i] = SettledCall(calls[i])])
                 next == Len(after.calls) + 1
             IN /\ habits' = after.habits
                /\ runs' = after.runs
                /\ IF position <= n
                   THEN /\ loading' = TRUE
                        /\ error' = Null
                        /\ calls' = Append(after.calls,
                                           NewCall("import", "createHabit", 0,
                                                   ImportHabitData(import.selected[position])))
                        /\ page' = [page EXCEPT
                                      !.imports[k] = [counted EXCEPT !.made = Append(@, next),
                                                                     !.waiting = next]]
                   ELSE /\ loading' = after.loads
                        /\ error' = IF after.loads THEN Null ELSE set.error
                        /\ calls' = after.calls
                        /\ page' = IF successCount > 0
                                   THEN [ResetPage(page) EXCEPT
                                           !.imports[k] = [counted EXCEPT !.waiting = 0],
                                           !.showImportModal = FALSE,
                                           !.isImporting = FALSE]
                                   ELSE [page EXCEPT
                                           !.imports[k] = [counted EXCEPT !.waiting = 0],
                                           !.importError =
                                             "Failed to import any habits. Please try again.",
                                           !.isImporting = FALSE]
  /\ UNCHANGED <<completions, streaks, now, tz, view, prev, backend>>
  /\ EffectBounded

\* the Habits page with one habit loaded, its completions and its streak; the
\* backend holds what the store shows; no modal is open
InitImport ==
  /\ tz = 0
  /\ now = MaxDay * MsPerDay + HalfDay
  /\ habits = <<[id |-> 1, name |-> InitName(1), description |-> InitDescription(1),
                 category |-> InitCategory(1), created_at |-> 0]>>
  /\ completions = [i \in {1} |-> << >>]
  /\ backend = [habits |-> habits, completions |-> completions,
                next_id |-> 1, next_habit_id |-> 2]
  /\ streaks = [i \in {1} |-> BackendStreak(habits[1])]
  /\ page = HabitsPage
  /\ view = NoView
  /\ prev = NoView
  /\ loading = FALSE
  /\ error = Null
  /\ calls = << >>
  /\ runs = << >>

\* the import modal on the Habits page: its handlers, the file readers, the
\* page's buttons that open and close the import and the create modal, the
\* backend and what resumes after its answers
NextImport ==
  \/ OpenImportModal
  \/ OpenCreateModal
  \/ CloseModals
  \/ HandleFileSelect
  \/ ReaderOnload
  \/ HandleHabitToggle
  \/ HandleSelectAll
  \/ ResetState
  \/ HandleClose
  \/ HandleImport
  \/ BackendAnswersRequest
  \/ ImportCallResumes
  \/ BackendAnswersStreak
  \/ EffectCallResumes

SpecImport == InitImport /\ [][NextImport]_vars

(* ========================= properties: import ========================== *)
\* the step in which the k-th invocation of handleImport ends
ImportEnds(k) ==
  /\ k \in 1..Len(page.imports)
  /\ page.imports[k].waiting # 0
  /\ page'.imports[k].waiting = 0

\* the invocation has called createHabit once for every habit of the selection
\* it captured, in the selection's order, every call has settled, and its
\* counters add up to the selection and count the calls that succeeded
ProcessedAll(import, cs) ==
  LET sel == import.selected
      made == import.made
  IN /\ Len(made) = Len(sel)
     /\ \A j \in 1..Len(sel) :
          /\ cs[made[j]].op = "createHabit"
          /\ cs[made[j]].caller = "import"
          /\ cs[made[j]].arg = ImportHabitData(sel[j])
          /\ cs[made[j]].pc = "done"
          /\ j > 1 => made[j - 1] < made[j]
     /\ import.successCount + import.errorCount = Len(sel)
     /\ import.successCount
          = Cardinality({j \in 1..Len(sel) : cs[made[j]].outcome = "ok"})

\* C30: importing processes every selected habit exactly once, in order: a
\* failure creating one habit does not stop the following ones, successCount +
\* errorCount is the number of selected habits when the loop ends, the modal
\* closes and resets if and only if a habit was created, and isImporting is
\* false again afterwards.
C30_ImportProcessesAll ==
  [][\A k \in 1..Len(page.imports) :
       ImportEnds(k) =>
         /\ ProcessedAll(page'.imports[k], calls')
         /\ (page'.imports[k].successCount > 0)
              <=> (~page'.showImportModal /\ page'.selectedHabits = << >>)
         /\ ~page'.isImporting]_vars

\* C30 as the code has it: every invocation of handleImport processes the
\* habits selected when it was called exactly once, in order, a failure not
\* stopping the following ones, and its counters add up to their number; at
\* its end it closes and resets the modal if a habit was created, and if none
\* was it leaves the modal and the selection as they are and sets the error;
\* it clears isImporting in both cases.
C30_ImportClosesOnSuccess ==
  [][\A k \in 1..Len(page.imports) :
       ImportEnds(k) =>
         /\ ProcessedAll(page'.imports[k], calls')
         /\ page'.imports[k].successCount > 0 =>
              /\ ~page'.showImportModal
              /\ ~page'.importData
              /\ page'.selectedHabits = << >>
              /\ page'.importError = Null
         /\ page'.imports[k].successCount = 0 =>
              /\ page'.showImportModal = page.showImportModal
              /\ page'.importData = page.importData
              /\ page'.selectedHabits = page.selectedHabits
              /\ page'.importError = "Failed to import any habits. Please try again."
         /\ ~page'.isImporting]_vars

\* two habits were selected, the first could not be created and the second
\* was: one success, one failure, the modal closed and reset
C30_Witness ==
  /\ Len(page.imports) = 1
  /\ LET import == page.imports[1]
     IN /\ import.waiting = 0
        /\ Len(import.made) = 2
        /\ calls[import.made[1]].outcome = "failed"
        /\ calls[import.made[2]].outcome = "ok"
        /\ import.successCount = 1
        /\ import.errorCount = 1
  /\ ~page.isImporting
  /\ ~page.showImportModal
  /\ page.selectedHabits = << >>

\* an import all of whose habits failed has ended with the modal closed, the
\* user having closed it meanwhile
ImportFailedBehindClosedModal ==
  /\ Len(page.imports) = 1
  /\ page.imports[1].waiting = 0
  /\ page.imports[1].successCount = 0
  /\ ~page.showImportModal

(* ============ the data-loading effect started by a mount =============== *)
\* the Habits page mounts and the effects of useHabits run in the order they
\* are declared: fetchHabits() sets loading, clears error and asks for the
\* habits; with a habit listed, fetchHabitData() starts and runs to its first
\* await
EffectMounts ==
  /\ page.mounted = "none"
  /\ page' = [page EXCEPT !.mounted = "Habits"]
  /\ LET fetching == Append(calls, NewCall("mount", "fetchHabits", 0, Null))
         after == HookRenders("Habits", TRUE, habits, completions, streaks, fetching)
     IN /\ habits' = after.habits
        /\ calls' = after.calls
        /\ runs' = after.runs
  /\ loading' = TRUE
  /\ error' = Null
  /\ UNCHANGED <<completions, streaks, now, tz, view, prev, backend>>

\* the store before the Habits page mounts: the habit list is loaded, and so
\* are the completions and streaks of some habits, from an earlier page; up to
\* MaxMissing entries are not (a habit created since, a fetch that failed)
InitEffect ==
  /\ tz = 0
  /\ now = MaxDay * MsPerDay + HalfDay
  /\ \E n \in 1..MaxHabits :
       /\ habits = [i \in 1..n |-> [id |-> i, name |-> InitName(i), description |-> InitDescription(i),
                                    category |-> InitCategory(i), created_at |-> 0]]
       /\ \E days \in SUBSET {MaxDay} :
            backend = [habits |-> habits,
                       completions |-> [i \in 1..n |-> RecordsFor(i, Ascending(days))],
                       next_id |-> MaxHabits * MaxRecords + 1, next_habit_id |-> n + 1]
  /\ \E C, S \in SUBSET HabitIds :
       /\ Cardinality(HabitIds \ C) + Cardinality(HabitIds \ S) <= MaxMissing
       /\ completions = [i \in C |-> backend.completions[i]]
       /\ streaks = [i \in S |-> BackendStreak(habits[i])]
  /\ runs = << >>
  /\ view = NoView
  /\ prev = NoView
  /\ loading = FALSE
  /\ error = Null
  /\ calls = << >>
  /\ page = NoPage

NextEffect ==
  \/ EffectMounts
  \/ BackendAnswersRequest
  \/ StoreCallResumes
  \/ BackendAnswersStreak
  \/ EffectCallResumes

\* every request is eventually answered and every continuation eventually runs
SpecEffect == InitEffect /\ [][NextEffect]_vars /\ WF_vars(NextEffect)

(* ================ properties: the data-loading effect ================== *)
\* the effect has run, no request is in flight and no run is in its loop
EffectQuiescent ==
  /\ runs # << >>
  /\ Quiescent
  /\ \A r \in 1..Len(runs) : RunDone(runs[r])

\* the requests the effects of a mount can make with n habits listed:
\* fetchHabits, those of the run started by the mount and those of the run
\* started by the answer to fetchHabits, each with the runs its successes start
MountRequestBound(n) == 1 + 2 * RequestBound(2 * n)

\* C29: from a loaded habit list, every request being answered, the effect
\* issues finitely many fetchCompletions/fetchStreak requests and reaches a
\* quiescent state; if every request succeeded every habit then has a
\* completions entry and a streak entry; a request that keeps failing causes
\* no endless refetching.
C29_EffectSettles ==
  /\ [](Len(calls) <= MountRequestBound(Len(backend.habits)))
  /\ <>[]EffectQuiescent
  /\ [](EffectQuiescent /\ AllSucceeded
          => /\ HabitIds \subseteq DOMAIN completions
             /\ HabitIds \subseteq DOMAIN streaks)

\* the effect came to rest although a request failed and was made again by a
\* later run
C29_Witness ==
  /\ EffectQuiescent
  /\ \E i, j \in 1..Len(calls) :
       /\ i < j
       /\ calls[i].op = calls[j].op
       /\ calls[i].habit_id = calls[j].habit_id
       /\ calls[i].outcome = "failed"
  /\ \E i \in 1..Len(calls) : calls[i].outcome = "ok"

====
